---- MODULE Spec2Model ----
(***************************************************************************)
(* Certificate lifecycle engine of gridtokenx-app (smart-meter-simulator): *)
(* pki_infrastructure.py (certificate store, issuance, revocation, CRL)    *)
(* and certificate_lifecycle.py (renewal jobs, health scan, alerts).       *)
(*                                                                         *)
(* Abstractions.  Time is an integer clock `now`; every datetime field is  *)
(* the clock value read when it was set, and timedelta(days=n) is n.       *)
(* Datetimes are compared and subtracted as instants.  Not modelled: the   *)
(* validity dates of a record come from x509 not_valid_before/_after,      *)
(* which carry no tzinfo, while the code compares them with                *)
(* datetime.now(timezone.utc); Python raises TypeError on such a           *)
(* comparison (check_certificate_health, certificate_monitoring_loop).     *)
(* The model describes the scan and the monitoring pass as they are        *)
(* written, for datetimes that can be compared.  Likewise generate_crl     *)
(* builds x509.ReasonFlags from the integer code of the ledger, where the  *)
(* library expects the name of the reason; the model takes the CRL to      *)
(* carry the code it is given.                                             *)
(* x509.random_serial_number() and rsa.generate_private_key() are random   *)
(* draws from a 159-bit and a 2048-bit space: they are modelled as values  *)
(* not in use (the usual freshness abstraction for cryptographic random    *)
(* values).  Calls into the cryptography, sqlite3 and requests libraries   *)
(* are taken to do what the call site asks of them.  A SELECT without      *)
(* ORDER BY, and ties under ORDER BY, may come back in any order.          *)
(* The three loops of CertificateLifecycleManager are asyncio tasks whose  *)
(* only suspension points are the asyncio.sleep calls between cycles, so   *)
(* one cycle of a loop is never interleaved with another loop.  A caller  *)
(* outside the event loop (another process or thread on the same store)   *)
(* and the end of the process can fall between any two statements; the     *)
(* stepwise actions of the renewal and of the revocation model that.       *)
(***************************************************************************)
EXTENDS Integers, Sequences, FiniteSets, TLC

VARIABLES
    now,            \* datetime.now(timezone.utc), in days
    config,         \* auto_renewal section of the configuration file
    certificates,   \* table certificates: serial_number -> row
    crl_entries,    \* table crl_entries: serial_number -> row
    crl,            \* contents of crl/ca.crl (empty before the first CRL)
    jobs_db,        \* table renewal_jobs: sequence of rows, index = id
    renewal_jobs,   \* CertificateRenewalManager.renewal_jobs (in memory)
    alerts_db,      \* table alerts: sequence of rows, index = id
    sent,           \* NotificationService.send_alert: the calls made
    health_report,  \* what the last check_certificate_health returned
    result,         \* outcome of the last call, as the caller sees it
    ca_files,       \* ca/ca.pem and private/ca-key.pem
    tasks,          \* the three asyncio tasks of start_management
    ops,            \* the calls in flight: a renewal, a revocation
    audit           \* history kept for the properties, not program state

vars == <<now, config, certificates, crl_entries, crl, jobs_db, renewal_jobs,
          alerts_db, sent, health_report, result, ca_files, tasks, ops,
          audit>>

-----------------------------------------------------------------------------
(* Bounds of the model *)

MaxSerial == 3
MaxJobs == 3
MaxAlerts == 3

Devices == {"M-001", "M-002"}
ReasonInputs == {"key_compromise", "certificate_hold"}

-----------------------------------------------------------------------------
(* Program constants *)

None == "None"
NoDate == -1
CAValidityDays == 3650
AlertWindowDays == 30
RenewalThresholdDays == 30
max_attempts == 3

Serials == 1..MaxSerial

\* PKIInfrastructure.load_certificate_templates: validity_days per template
templates ==
    [smart_meter |-> 365, ieee2030_5_server |-> 730, api_gateway |-> 365]

\* reason_codes of add_to_crl, with .get(reason, 0)
reason_codes ==
    [unspecified |-> 0, key_compromise |-> 1, ca_compromise |-> 2,
     affiliation_changed |-> 3, superseded |-> 4,
     cessation_of_operation |-> 5, certificate_hold |-> 6,
     privilege_withdrawn |-> 9, aa_compromise |-> 10]

reason_code(reason) ==
    IF reason \in DOMAIN reason_codes THEN reason_codes[reason] ELSE 0

\* priority_order of process_renewal_jobs, with .get(priority, 3)
priority_order(priority) ==
    CASE priority = "critical" -> 0
      [] priority = "high" -> 1
      [] priority = "medium" -> 2
      [] OTHER -> 3

-----------------------------------------------------------------------------
(* Certificate records and the certificate store *)

\* hashlib.sha256(cert.public_bytes(Encoding.DER)).hexdigest()
fingerprint(serial, key) == <<"sha256", serial, key>>

\* cert.public_bytes(Encoding.PEM).decode()
certificate_pem(serial, key) == <<"pem", serial, key>>

\* @dataclass CertificateRecord
CertificateRecord(serial, subject, nb, na, key, device, template) ==
    [serial_number |-> serial, subject_dn |-> subject, issuer_dn |-> "CA",
     not_before |-> nb, not_after |-> na, status |-> "active",
     fingerprint_sha256 |-> fingerprint(serial, key),
     certificate_pem |-> certificate_pem(serial, key),
     device_id |-> device, template_name |-> template,
     revocation_date |-> NoDate, revocation_reason |-> None,
     renewal_count |-> 0]

\* Mutant: the serial is derived from the number of rows (the last one again)
random_serial_number_counted(certs) ==
    IF DOMAIN certs = {} THEN 1 ELSE Cardinality(DOMAIN certs)

\* x509.random_serial_number(): a serial no stored certificate carries
random_serial_number(certs) ==
    CHOOSE s \in Serials \ DOMAIN certs :
        \A u \in Serials \ DOMAIN certs : s <= u

\* generate_key_pair / rsa.generate_private_key: a key no certificate holds
generate_key_pair(certs) ==
    CHOOSE k \in 1..(MaxSerial + 1) :
        /\ \A s \in DOMAIN certs : certs[s].certificate_pem[3] # k
        /\ \A j \in 1..(k - 1) :
               \E s \in DOMAIN certs : certs[s].certificate_pem[3] = j

\* CertificateDatabase.store_certificate: INSERT OR REPLACE of the whole row
store_certificate(certs, cert_record) ==
    [s \in DOMAIN certs \cup {cert_record.serial_number} |->
        IF s = cert_record.serial_number THEN cert_record ELSE certs[s]]

\* CertificateDatabase.get_certificate: Optional[CertificateRecord] as a
\* sequence of at most one record
get_certificate(certs, serial) ==
    IF serial \in DOMAIN certs THEN <<certs[serial]>> ELSE <<>>

\* All listings of the rows in S, each once
Listings(S) ==
    {f \in [1..Cardinality(S) -> S] :
        \A i, j \in 1..Cardinality(S) : i # j => f[i] # f[j]}

\* CertificateDatabase.get_certificates_by_device: the result lists that
\* SELECT ... WHERE device_id = ? ORDER BY not_after DESC can return
get_certificates_by_device(certs, device_id) ==
    LET rows == {certs[s] : s \in {u \in DOMAIN certs :
                                      certs[u].device_id = device_id}}
    IN {f \in Listings(rows) :
           \A i \in 1..(Len(f) - 1) : f[i].not_after >= f[i + 1].not_after}

\* Mutant: the expiring query leaves out the record that expires at the
\* end of the window
get_expiring_certificates_open(certs, days_ahead, t) ==
    {certs[s] : s \in {u \in DOMAIN certs :
        certs[u].status = "active" /\ certs[u].not_after < t + days_ahead}}

\* CertificateDatabase.get_expiring_certificates: the rows selected by
\* status = 'active' AND not_after <= now + days_ahead
get_expiring_certificates(certs, days_ahead, t) ==
    {certs[s] : s \in {u \in DOMAIN certs :
        certs[u].status = "active" /\ certs[u].not_after <= t + days_ahead}}

-----------------------------------------------------------------------------
(* Issuance, revocation and the CRL.  The store is passed as a record      *)
(* db = [certificates, crl_entries, crl] so that calls can be chained.     *)

\* PKIInfrastructure.generate_crl: rows with status revoked, LEFT JOIN
\* crl_entries; written to crl/ca.crl
generate_crl(certs, ledger) ==
    {[serial_number |-> s,
      revocation_date |-> certs[s].revocation_date,
      reason_code |-> IF s \in DOMAIN ledger THEN ledger[s].reason_code ELSE 0]
        : s \in {u \in DOMAIN certs : certs[u].status = "revoked"}}

\* Mutant: the ledger row is written and the CRL file is left as it was
add_to_crl_stale(db, serial, reason, t) ==
    [db EXCEPT !.crl_entries =
        [s \in DOMAIN db.crl_entries \cup {serial} |->
            IF s = serial
            THEN [serial_number |-> serial, revocation_date |-> t,
                  reason_code |-> reason_code(reason)]
            ELSE db.crl_entries[s]]]

\* PKIInfrastructure.add_to_crl: INSERT OR REPLACE INTO crl_entries, then
\* generate_crl
add_to_crl(db, serial, reason, t) ==
    LET ledger == [s \in DOMAIN db.crl_entries \cup {serial} |->
                     IF s = serial
                     THEN [serial_number |-> serial, revocation_date |-> t,
                           reason_code |-> reason_code(reason)]
                     ELSE db.crl_entries[s]]
    IN [certificates |-> db.certificates,
        crl_entries |-> ledger,
        crl |-> generate_crl(db.certificates, ledger)]

\* Mutant: the record is marked revoked without its date and reason
revoke_certificate_unstamped(db, serial, reason, t) ==
    IF get_certificate(db.certificates, serial) = <<>>
    THEN [db |-> db, outcome |-> "ValueError: Certificate not found"]
    ELSE LET cert_record == [get_certificate(db.certificates, serial)[1] EXCEPT
                                !.status = "revoked"]
         IN [db |-> add_to_crl(
                       [db EXCEPT !.certificates =
                            store_certificate(db.certificates, cert_record)],
                       serial, reason, t),
             outcome |-> "ok"]

\* Mutant: no check that the record was found; the serial goes to the CRL
revoke_certificate_unchecked(db, serial, reason, t) ==
    IF get_certificate(db.certificates, serial) = <<>>
    THEN [db |-> add_to_crl(db, serial, reason, t), outcome |-> "ok"]
    ELSE LET cert_record == [get_certificate(db.certificates, serial)[1] EXCEPT
                                !.status = "revoked",
                                !.revocation_date = t,
                                !.revocation_reason = reason]
         IN [db |-> add_to_crl(
                       [db EXCEPT !.certificates =
                            store_certificate(db.certificates, cert_record)],
                       serial, reason, t),
             outcome |-> "ok"]

\* PKIInfrastructure.revoke_certificate as its caller sees it: the store
\* afterwards and "ok", or the store untouched and the ValueError
revoke_certificate(db, serial, reason, t) ==
    IF get_certificate(db.certificates, serial) = <<>>
    THEN [db |-> db, outcome |-> "ValueError: Certificate not found"]
    ELSE LET cert_record == [get_certificate(db.certificates, serial)[1] EXCEPT
                                !.status = "revoked",
                                !.revocation_date = t,
                                !.revocation_reason = reason]
         IN [db |-> add_to_crl(
                       [db EXCEPT !.certificates =
                            store_certificate(db.certificates, cert_record)],
                       serial, reason, t),
             outcome |-> "ok"]

\* Mutant: every certificate gets the validity of the root
issue_device_certificate_ca_validity(certs, device_id, template_name, t) ==
    store_certificate(certs,
        CertificateRecord(random_serial_number(certs), device_id, t,
                          t + CAValidityDays,
                          generate_key_pair(certs), device_id, template_name))

\* PKIInfrastructure.issue_device_certificate, for a known template and a
\* signing backend that works: the record of the new certificate
issue_device_certificate(certs, device_id, template_name, t) ==
    store_certificate(certs,
        CertificateRecord(random_serial_number(certs), device_id, t,
                          t + templates[template_name],
                          generate_key_pair(certs), device_id, template_name))

\* PKIInfrastructure.create_ca_certificate: the self-signed root record
create_ca_certificate(certs, t) ==
    store_certificate(certs,
        CertificateRecord(random_serial_number(certs), "CA", t,
                          t + CAValidityDays, generate_key_pair(certs),
                          None, "root_ca"))

\* PKIInfrastructure.load_or_create_ca: files are ca/ca.pem (the serial of
\* the certificate in it) and private/ca-key.pem (the key in it), each <<>>
\* while the file does not exist
load_or_create_ca(files, certs, t) ==
    IF files.ca_pem # <<>> /\ files.ca_key_pem # <<>>
    THEN [files |-> files, certificates |-> certs, outcome |-> "loaded"]
    ELSE [files |-> [ca_pem |-> <<random_serial_number(certs)>>,
                     ca_key_pem |-> <<generate_key_pair(certs)>>],
          certificates |-> create_ca_certificate(certs, t),
          outcome |-> "created"]

\* Mutant: an unknown template name falls back to the smart_meter template
issue_outcome_any_template(certs, device_id, template_name, signing, t) ==
    IF ~signing \/ Serials \ DOMAIN certs = {}
    THEN [certificates |-> certs, outcome |-> "SigningError"]
    ELSE [certificates |->
              issue_device_certificate(certs, device_id,
                  IF template_name \in DOMAIN templates
                  THEN template_name ELSE "smart_meter", t),
          outcome |-> "ok"]

\* PKIInfrastructure.issue_device_certificate as its caller sees it: the
\* store afterwards and "ok", or the store untouched and the exception
issue_outcome(certs, device_id, template_name, signing, t) ==
    IF template_name \notin DOMAIN templates
    THEN [certificates |-> certs, outcome |-> "ValueError: Unknown template"]
    ELSE IF ~signing \/ Serials \ DOMAIN certs = {}
    THEN [certificates |-> certs, outcome |-> "SigningError"]
    ELSE [certificates |->
              issue_device_certificate(certs, device_id, template_name, t),
          outcome |-> "ok"]

\* process_single_renewal / renew_device_certificate after the issuance:
\* renewal count on new_cert, then the optional revocation of current_cert
update_renewal(db, current_cert, new_cert, revoke_old, t) ==
    LET counted == [db EXCEPT !.certificates = store_certificate(@,
                       [new_cert EXCEPT
                           !.renewal_count = current_cert.renewal_count + 1])]
    IN IF revoke_old
       THEN revoke_certificate(counted, current_cert.serial_number,
                               "superseded", t)
       ELSE [db |-> counted, outcome |-> "ok"]

\* The try block of process_single_renewal and of renew_device_certificate
\* for device_id: every [db, success] it can end with
renewal_outcomes(db, device_id, revoke_old, signing, t) ==
    LET lists == get_certificates_by_device(db.certificates, device_id)
    IN IF lists = {<<>>}
       THEN {[db |-> db, success |-> FALSE]}
       ELSE UNION {
         LET current_cert == certs[1]
             template == IF current_cert.template_name = None
                         THEN "smart_meter" ELSE current_cert.template_name
             issued == issue_outcome(db.certificates, device_id, template,
                                     signing, t)
         IN IF issued.outcome # "ok"
            THEN {[db |-> db, success |-> FALSE]}
            ELSE {LET updated == update_renewal(
                            [db EXCEPT !.certificates = issued.certificates],
                            current_cert, new_certs[1], revoke_old, t)
                  IN [db |-> updated.db, success |-> updated.outcome = "ok"]
                     : new_certs \in get_certificates_by_device(
                                         issued.certificates, device_id)}
         : certs \in lists}

\* The calls of process_single_renewal after the issuance that write to the
\* store or to the CRL; any of them can raise (sqlite3.Error, OSError, an
\* exception of the CRL builder), and "none" is the run in which none does
Faults ==
    {"none", "store_certificate", "revoke_certificate", "add_to_crl",
     "generate_crl"}

\* The try block of process_single_renewal in which the call named by fault
\* raises: nothing is rolled back, so the store is as the calls before it
\* left it, and the except clause returns False
renewal_interrupted(db, device_id, revoke_old, fault, t) ==
    LET lists == get_certificates_by_device(db.certificates, device_id)
    IN UNION {
         LET current_cert == certs[1]
             template == IF current_cert.template_name = None
                         THEN "smart_meter" ELSE current_cert.template_name
             issued == issue_outcome(db.certificates, device_id, template,
                                     TRUE, t)
         IN IF issued.outcome # "ok"
            THEN {[db |-> db, success |-> FALSE]}
            ELSE {LET counted == store_certificate(issued.certificates,
                                     [new_certs[1] EXCEPT !.renewal_count =
                                          current_cert.renewal_count + 1])
                      cert_record ==
                          [get_certificate(counted,
                                           current_cert.serial_number)[1]
                              EXCEPT !.status = "revoked",
                                     !.revocation_date = t,
                                     !.revocation_reason = "superseded"]
                      revoked == store_certificate(counted, cert_record)
                  IN IF fault = "store_certificate"
                     THEN [db |-> [db EXCEPT !.certificates =
                                                 issued.certificates],
                           success |-> FALSE]
                     ELSE IF ~revoke_old
                     THEN [db |-> [db EXCEPT !.certificates = counted],
                           success |-> TRUE]
                     ELSE IF fault = "revoke_certificate"
                     THEN [db |-> [db EXCEPT !.certificates = counted],
                           success |-> FALSE]
                     ELSE IF fault = "add_to_crl"
                     THEN [db |-> [db EXCEPT !.certificates = revoked],
                           success |-> FALSE]
                     ELSE [db |-> [add_to_crl(
                                       [db EXCEPT !.certificates = revoked],
                                       current_cert.serial_number,
                                       "superseded", t)
                                     EXCEPT !.crl = db.crl],
                           success |-> FALSE]
                  : new_certs \in get_certificates_by_device(
                                      issued.certificates, device_id)}
         : certs \in lists \ {<<>>}}

\* process_single_renewal for a job of device_id: every [db, success] it can
\* end with when the call named by fault raises
process_single_renewal(db, device_id, revoke_old, signing, fault, t) ==
    IF fault = "none" \/ ~signing
       \/ get_certificates_by_device(db.certificates, device_id) = {<<>>}
    THEN renewal_outcomes(db, device_id, revoke_old, signing, t)
    ELSE renewal_interrupted(db, device_id, revoke_old, fault, t)

\* Mutant: the first failure ends the batch, the rest is reported failed
RECURSIVE bulk_issue_certificates_failfast(_, _, _, _)
bulk_issue_certificates_failfast(results, devices, i, t) ==
    IF i > Len(devices)
    THEN results
    ELSE LET device == devices[i]
             issued == IF device.device_id = None \/ results.failed # <<>>
                       THEN [certificates |-> results.certificates,
                             outcome |-> "KeyError"]
                       ELSE issue_outcome(results.certificates,
                                device.device_id, device.template, TRUE, t)
         IN bulk_issue_certificates_failfast(
                IF issued.outcome = "ok"
                THEN [certificates |-> issued.certificates,
                      successful |-> Append(results.successful,
                                            device.device_id),
                      failed |-> results.failed]
                ELSE [certificates |-> results.certificates,
                      successful |-> results.successful,
                      failed |-> Append(results.failed,
                                   IF device.device_id = None
                                   THEN "unknown" ELSE device.device_id)],
                devices, i + 1, t)

\* PKIInfrastructure.bulk_issue_certificates over devices[i..]
RECURSIVE bulk_issue_certificates(_, _, _, _)
bulk_issue_certificates(results, devices, i, t) ==
    IF i > Len(devices)
    THEN results
    ELSE LET device == devices[i]
             issued == IF device.device_id = None
                       THEN [certificates |-> results.certificates,
                             outcome |-> "KeyError"]
                       ELSE issue_outcome(results.certificates,
                                device.device_id, device.template, TRUE, t)
         IN bulk_issue_certificates(
                IF issued.outcome = "ok"
                THEN [certificates |-> issued.certificates,
                      successful |-> Append(results.successful,
                                            device.device_id),
                      failed |-> results.failed]
                ELSE [certificates |-> results.certificates,
                      successful |-> results.successful,
                      failed |-> Append(results.failed,
                                   IF device.device_id = None
                                   THEN "unknown" ELSE device.device_id)],
                devices, i + 1, t)

-----------------------------------------------------------------------------
(* Renewal jobs *)

\* @dataclass RenewalJob as schedule_renewal builds it, with the id of its
\* row in renewal_jobs; the column max_attempts is the default 3 in every row
RenewalJob(id, device_id, serial, expiry_date, priority) ==
    [id |-> id, device_id |-> device_id, serial_number |-> serial,
     expiry_date |-> expiry_date, priority |-> priority,
     renewal_attempts |-> 0, last_attempt |-> NoDate, status |-> "pending"]

\* CertificateRenewalManager.schedule_renewal: INSERT INTO renewal_jobs
schedule_renewal(jobs, device_id, serial, expiry_date, priority) ==
    Append(jobs, RenewalJob(Len(jobs) + 1, device_id, serial, expiry_date,
                            priority))

\* Mutant: the priority in three steps, as the severity of a health alert
renewal_priority_coarse(days_until_expiry) ==
    IF days_until_expiry <= 7 THEN "critical"
    ELSE IF days_until_expiry <= 14 THEN "high"
    ELSE "medium"

\* certificate_monitoring_loop: priority from the days until expiry
renewal_priority(days_until_expiry) ==
    IF days_until_expiry <= 7 THEN "critical"
    ELSE IF days_until_expiry <= 14 THEN "high"
    ELSE IF days_until_expiry <= 21 THEN "medium"
    ELSE "low"

\* Mutant: a job for every record the expiring query returns
RECURSIVE schedule_expiring_all(_, _, _, _, _)
schedule_expiring_all(jobs, expiring_certs, i, enabled, t) ==
    IF i > Len(expiring_certs)
    THEN jobs
    ELSE LET cert == expiring_certs[i]
         IN schedule_expiring_all(
                schedule_renewal(jobs,
                    IF cert.device_id = None THEN "M-001" ELSE cert.device_id,
                    cert.serial_number, cert.not_after,
                    renewal_priority(cert.not_after - t)),
                expiring_certs, i + 1, enabled, t)

\* Mutant: the for loop is left after the first job it has scheduled
RECURSIVE schedule_expiring_first(_, _, _, _, _)
schedule_expiring_first(jobs, expiring_certs, i, enabled, t) ==
    IF i > Len(expiring_certs)
    THEN jobs
    ELSE LET cert == expiring_certs[i]
         IN IF cert.device_id # None /\ cert.status = "active" /\ enabled
            THEN schedule_renewal(jobs, cert.device_id, cert.serial_number,
                                  cert.not_after,
                                  renewal_priority(cert.not_after - t))
            ELSE schedule_expiring_first(jobs, expiring_certs, i + 1,
                                         enabled, t)

\* certificate_monitoring_loop: the for loop over expiring_certs[i..]
RECURSIVE schedule_expiring(_, _, _, _, _)
schedule_expiring(jobs, expiring_certs, i, enabled, t) ==
    IF i > Len(expiring_certs)
    THEN jobs
    ELSE LET cert == expiring_certs[i]
         IN schedule_expiring(
                IF cert.device_id # None /\ cert.status = "active" /\ enabled
                THEN schedule_renewal(jobs, cert.device_id,
                         cert.serial_number, cert.not_after,
                         renewal_priority(cert.not_after - t))
                ELSE jobs,
                expiring_certs, i + 1, enabled, t)

\* Mutant: the jobs are ordered by expiry date alone
job_key_le_expiry(a, b) == a.expiry_date <= b.expiry_date

\* The sort key of process_renewal_jobs, compared as Python compares tuples
job_key_le(a, b) ==
    \/ priority_order(a.priority) < priority_order(b.priority)
    \/ /\ priority_order(a.priority) = priority_order(b.priority)
       /\ a.expiry_date <= b.expiry_date

\* list.sort is stable: job goes after the jobs whose key is not greater
RECURSIVE insert_job(_, _)
insert_job(sorted, job) ==
    IF sorted = <<>> \/ job_key_le(sorted[Len(sorted)], job)
    THEN Append(sorted, job)
    ELSE Append(insert_job(SubSeq(sorted, 1, Len(sorted) - 1), job),
                sorted[Len(sorted)])

\* self.renewal_jobs.sort(key=(priority_order, expiry_date))
RECURSIVE sort_jobs(_)
sort_jobs(jobs) ==
    IF jobs = <<>>
    THEN <<>>
    ELSE insert_job(sort_jobs(SubSeq(jobs, 1, Len(jobs) - 1)), jobs[Len(jobs)])

\* CertificateRenewalManager.load_pending_jobs: the rows selected
load_pending_jobs(jobs) ==
    {jobs[i] : i \in {j \in DOMAIN jobs : jobs[j].status = "pending"}}

\* CertificateRenewalManager.update_job: UPDATE ... WHERE device_id = ? AND
\* serial_number = ?
update_job(jobs, job) ==
    [i \in DOMAIN jobs |->
        IF /\ jobs[i].device_id = job.device_id
           /\ jobs[i].serial_number = job.serial_number
        THEN [jobs[i] EXCEPT !.renewal_attempts = job.renewal_attempts,
                             !.last_attempt = job.last_attempt,
                             !.status = job.status]
        ELSE jobs[i]]

\* @dataclass CertificateAlert (the message is a text for the reader)
CertificateAlert(alert_type, device_id, serial, severity, t) ==
    [alert_type |-> alert_type, device_id |-> device_id,
     serial_number |-> serial, severity |-> severity, timestamp |-> t,
     acknowledged |-> FALSE]

\* What the webhook endpoint and the mail server do with a delivery
Deliveries == [webhook : BOOLEAN, email : BOOLEAN]

AllDelivered == [webhook |-> TRUE, email |-> TRUE]

NoneDelivered == [webhook |-> FALSE, email |-> FALSE]

\* Mutant: send_alert without its try/except, a failed delivery is raised
send_alert_unguarded(alert, notify, delivery) ==
    LET webhook == IF notify.webhook
                   THEN <<[channel |-> "webhook",
                           delivered |-> delivery.webhook]>>
                   ELSE <<>>
        email == IF notify.email
                 THEN <<[channel |-> "email", delivered |-> delivery.email]>>
                 ELSE <<>>
        attempts == IF notify.webhook /\ ~delivery.webhook
                    THEN webhook ELSE webhook \o email
    IN [alert |-> alert, attempts |-> attempts,
        raised |-> \E k \in DOMAIN attempts : ~attempts[k].delivered]

\* NotificationService.send_alert: the webhook if a URL is configured, then
\* the email if enabled, in one try block; an exception of the webhook
\* delivery ends the block.  attempts are the deliveries tried, raised
\* tells whether the call raised
send_alert(alert, notify, delivery) ==
    LET webhook == IF notify.webhook
                   THEN <<[channel |-> "webhook",
                           delivered |-> delivery.webhook]>>
                   ELSE <<>>
        email == IF notify.email
                 THEN <<[channel |-> "email", delivered |-> delivery.email]>>
                 ELSE <<>>
        attempts == IF notify.webhook /\ ~delivery.webhook
                    THEN webhook ELSE webhook \o email
    IN [alert |-> alert, attempts |-> attempts, raised |-> FALSE]

\* CertificateHealthMonitor.store_alert: INSERT INTO alerts
store_alert(alerts, alert) == Append(alerts, alert)

\* check_certificate_health: the store_alert calls of one scan, in the
\* order of its alerts
RECURSIVE store_alerts(_, _, _)
store_alerts(alerts, scan_alerts, i) ==
    IF i > Len(scan_alerts)
    THEN alerts
    ELSE store_alerts(store_alert(alerts, scan_alerts[i]), scan_alerts, i + 1)

\* process_renewal_jobs: the body of the for loop for self.renewal_jobs[i];
\* pass holds the store, the job table, the list in memory, the alerts sent
\* and the history; every state the iteration can end in
process_renewal_job(pass, i, signing, delivery, cfg, t) ==
    LET job == pass.renewal_jobs[i]
    IN IF job.status # "pending"
       THEN {pass}
       ELSE IF job.renewal_attempts >= max_attempts
       THEN LET failed == [job EXCEPT !.status = "failed"]
            IN {[pass EXCEPT
                    !.jobs_db = update_job(@, failed),
                    !.renewal_jobs[i] = failed,
                    !.sent = Append(@, send_alert(
                                 CertificateAlert("renewal_failed",
                                     job.device_id, job.serial_number,
                                     "critical", t),
                                 cfg, delivery)),
                    !.audit.exhausted = @ \cup {job.id},
                    !.audit.realerted = IF job.id \in pass.audit.exhausted
                                        THEN @ \cup {job.id} ELSE @]}
       ELSE {LET done == IF r.success
                         THEN [job EXCEPT !.status = "completed"]
                         ELSE [job EXCEPT !.renewal_attempts = @ + 1,
                                          !.last_attempt = t]
             IN [pass EXCEPT
                    !.db = r.db,
                    !.jobs_db = update_job(@, done),
                    !.renewal_jobs[i] = done,
                    !.sent = IF r.success
                             THEN Append(@, send_alert(
                                      CertificateAlert("renewal_completed",
                                          job.device_id, job.serial_number,
                                          "info", t),
                                      cfg, delivery))
                             ELSE @,
                    !.audit.issued = @ + Cardinality(DOMAIN r.db.certificates)
                                       - Cardinality(DOMAIN pass.db.certificates),
                    !.audit.retried = IF job.id \in pass.audit.exhausted
                                      THEN @ \cup {job.id} ELSE @,
                    !.audit.calls =
                        IF get_certificates_by_device(pass.db.certificates,
                                                      job.device_id) = {<<>>}
                        THEN @
                        ELSE [id \in DOMAIN @ \cup {job.id} |->
                                 IF id # job.id THEN @[id]
                                 ELSE IF id \notin DOMAIN @ THEN 1
                                 ELSE IF @[id] > max_attempts THEN @[id]
                                 ELSE @[id] + 1]]
             : r \in renewal_outcomes(pass.db, job.device_id, cfg.revoke_old,
                                      signing, t)}

\* process_renewal_jobs: the for loop over self.renewal_jobs[i..]
RECURSIVE process_renewal_jobs(_, _, _, _, _, _)
process_renewal_jobs(pass, i, signing, delivery, cfg, t) ==
    IF i > Len(pass.renewal_jobs)
    THEN {pass}
    ELSE UNION {process_renewal_jobs(next, i + 1, signing, delivery, cfg, t)
                : next \in process_renewal_job(pass, i, signing[i],
                                               delivery, cfg, t)}

-----------------------------------------------------------------------------
(* Health scan *)

NoReport ==
    [total_certificates |-> 0, active_certificates |-> 0,
     revoked_certificates |-> 0, expired_certificates |-> 0,
     expiring_soon |-> 0, alerts_generated |-> 0, timestamp |-> NoDate]

\* Mutant: the severity steps stop one day short
alert_severity_short(days_until_expiry) ==
    IF days_until_expiry < 7 THEN "critical"
    ELSE IF days_until_expiry < 14 THEN "warning"
    ELSE "info"

\* check_certificate_health: severity from the days until expiry
alert_severity(days_until_expiry) ==
    IF days_until_expiry <= 7 THEN "critical"
    ELSE IF days_until_expiry <= 14 THEN "warning"
    ELSE "info"

\* Mutant: a record past its not_after counts as expired whatever its status
health_class_by_date(cert_record, t) ==
    IF cert_record.not_after < t
    THEN "expired"
    ELSE IF cert_record.not_after < t + AlertWindowDays
            /\ cert_record.status = "active"
    THEN "expiring"
    ELSE "valid"

\* check_certificate_health: how the scan at time t treats one record
health_class(cert_record, t) ==
    IF cert_record.not_after < t
    THEN IF cert_record.status = "active" THEN "expired_active" ELSE "expired"
    ELSE IF cert_record.not_after < t + AlertWindowDays
            /\ cert_record.status = "active"
    THEN "expiring"
    ELSE "valid"

\* check_certificate_health: the alert built for one record, if any
health_alerts(cert_record, t) ==
    LET device == IF cert_record.device_id = None
                  THEN "unknown" ELSE cert_record.device_id
    IN CASE health_class(cert_record, t) = "expired_active" ->
              <<CertificateAlert("certificate_expired", device,
                    cert_record.serial_number, "critical", t)>>
         [] health_class(cert_record, t) = "expiring" ->
              <<CertificateAlert("certificate_expiring", device,
                    cert_record.serial_number,
                    alert_severity(cert_record.not_after - t), t)>>
         [] OTHER -> <<>>

\* check_certificate_health: the send_alert calls of the for loop over
\* all_certs[i..], in order; an exception raised by send_alert would leave
\* the loop
RECURSIVE health_calls(_, _, _, _, _)
health_calls(all_certs, i, notify, delivery, t) ==
    IF i > Len(all_certs)
    THEN <<>>
    ELSE LET alerts == health_alerts(all_certs[i], t)
             calls == [k \in DOMAIN alerts |->
                          send_alert(alerts[k], notify, delivery)]
         IN IF \E k \in DOMAIN calls : calls[k].raised
            THEN calls
            ELSE calls \o health_calls(all_certs, i + 1, notify, delivery, t)

\* check_certificate_health over the rows all_certs: the report with its
\* counters, the send_alert calls made and the alerts stored.  Each alert
\* is handed to send_alert first and to store_alert when that returns
check_certificate_health(all_certs, notify, delivery, t) ==
    LET calls == health_calls(all_certs, 1, notify, delivery, t)
        raised == \E k \in DOMAIN calls : calls[k].raised
        returned == IF raised THEN Len(calls) - 1 ELSE Len(calls)
        rows == DOMAIN all_certs
    IN [report |->
           [total_certificates |-> Len(all_certs),
            active_certificates |->
                Cardinality({i \in rows : all_certs[i].status = "active"}),
            revoked_certificates |->
                Cardinality({i \in rows : all_certs[i].status = "revoked"}),
            expired_certificates |->
                Cardinality({i \in rows : health_class(all_certs[i], t)
                                \in {"expired_active", "expired"}}),
            expiring_soon |->
                Cardinality({i \in rows :
                                health_class(all_certs[i], t) = "expiring"}),
            alerts_generated |-> returned,
            timestamp |-> t],
        sent |-> calls,
        alerts |-> [k \in 1..returned |-> calls[k].alert],
        raised |-> raised]

-----------------------------------------------------------------------------
(* State *)

DB == [certificates |-> certificates, crl_entries |-> crl_entries, crl |-> crl]

SetDB(db) ==
    /\ certificates' = db.certificates
    /\ crl_entries' = db.crl_entries
    /\ crl' = db.crl

\* What the caller of an operation gets back: "ok" or the exception raised
Outcome(op, outcome) == outcome

\* start_management: the tasks created for certificate_monitoring_loop,
\* renewal_processing_loop and health_check_loop.  pc is where a task
\* stands: "cycle" at the top of the try block, "sleep" in the sleep that
\* ends a cycle, "backoff" in the sleep of the except branch, "renew" and
\* "alert" at the awaits of process_renewal_jobs for its i-th job
Loops == {"monitoring", "renewal", "health"}

\* No call in flight.  renewal is the frame of process_single_renewal
\* (current_cert and new_cert as sequences of at most one record),
\* revocation the frame of a revoke_certificate call of another caller
NoOps ==
    [renewal |-> [pc |-> "idle", current_cert |-> <<>>, new_cert |-> <<>>],
     revocation |-> [pc |-> "idle", serial |-> 0, reason |-> None,
                     cert_record |-> <<>>]]

\* The directories of a deployment before its first start
NoFiles == [ca_pem |-> <<>>, ca_key_pem |-> <<>>]

Init ==
    /\ now = 0
    /\ config \in [enabled : BOOLEAN, revoke_old : BOOLEAN,
                  webhook : BOOLEAN, email : BOOLEAN]
    /\ ca_files = load_or_create_ca(NoFiles, <<>>, 0).files
    /\ tasks = [l \in Loops |-> [pc |-> "cycle", i |-> 0]]
    /\ ops = NoOps
    /\ certificates = load_or_create_ca(NoFiles, <<>>, 0).certificates
    /\ crl_entries = <<>>
    /\ crl = {}
    /\ jobs_db = <<>>
    /\ renewal_jobs = <<>>
    /\ alerts_db = <<>>
    /\ sent = <<>>
    /\ health_report = NoReport
    /\ result = Outcome("init", "ok")
    /\ audit = [issued |-> 0, exhausted |-> {}, retried |-> {},
                realerted |-> {}, classes |-> <<>>, calls |-> <<>>]

\* The number of records by which certs exceeds the store
Issued(certs) == Cardinality(DOMAIN certs) - Cardinality(DOMAIN certificates)

\* A later start of the process on the same base directory:
\* PKIInfrastructure.__init__ calls load_or_create_ca
Initialize ==
    /\ (ca_files.ca_pem = <<>> \/ ca_files.ca_key_pem = <<>>)
           => Serials \ DOMAIN certificates # {}
    /\ LET started == load_or_create_ca(ca_files, certificates, now)
       IN /\ ca_files' = started.files
          /\ certificates' = started.certificates
          /\ result' = Outcome("init", started.outcome)
    /\ UNCHANGED <<tasks, ops, now, config, crl_entries, crl, jobs_db,
                   renewal_jobs, alerts_db, sent, health_report, audit>>

\* Between two starts one of the two files of the root goes missing, so
\* that Path.exists() is false for it
RemoveFile(name) ==
    /\ name \in {"ca_pem", "ca_key_pem"}
    /\ ca_files[name] # <<>>
    /\ ca_files' = [ca_files EXCEPT ![name] = <<>>]
    /\ UNCHANGED <<tasks, ops, now, config, certificates, crl_entries, crl,
                   jobs_db, renewal_jobs, alerts_db, sent, health_report,
                   result, audit>>

\* A caller invokes issue_device_certificate(device_id, {}, template_name);
\* signing is what the key/signing backend does
IssueDevice(device_id, template_name, signing) ==
    /\ LET issued == issue_outcome(certificates, device_id, template_name,
                                   signing, now)
       IN /\ certificates' = issued.certificates
          /\ result' = Outcome("issue", issued.outcome)
          /\ audit' = [audit EXCEPT
                          !.issued = @ + (IF issued.outcome = "ok" THEN 1 ELSE 0)]
    /\ UNCHANGED <<ca_files, tasks, ops, now, config, crl_entries, crl,
                   jobs_db, renewal_jobs, alerts_db, sent, health_report>>

\* A caller invokes bulk_issue_certificates(devices)
BulkIssue(devices) ==
    /\ LET results == bulk_issue_certificates(
                          [certificates |-> certificates,
                           successful |-> <<>>, failed |-> <<>>],
                          devices, 1, now)
       IN /\ certificates' = results.certificates
          /\ result' = Outcome("bulk_issue", "ok")
          /\ audit' = [audit EXCEPT !.issued = @ + Len(results.successful)]
    /\ UNCHANGED <<ca_files, tasks, ops, now, config, crl_entries, crl,
                   jobs_db, renewal_jobs, alerts_db, sent, health_report>>

\* A caller invokes revoke_certificate(serial, reason)
Revoke(serial, reason) ==
    /\ LET revoked == revoke_certificate(DB, serial, reason, now)
       IN /\ SetDB(revoked.db)
          /\ result' = Outcome("revoke", revoked.outcome)
    /\ UNCHANGED <<ca_files, tasks, ops, now, config, jobs_db, renewal_jobs,
                   alerts_db, sent, health_report, audit>>

\* A caller awaits renew_device_certificate(device_id); every exception is
\* logged and swallowed
RenewDevice(device_id, signing) ==
    /\ \E r \in renewal_outcomes(DB, device_id, config.revoke_old, signing, now) :
          /\ SetDB(r.db)
          /\ audit' = [audit EXCEPT !.issued = @ + Issued(r.db.certificates)]
    /\ result' = Outcome("renew", "ok")
    /\ UNCHANGED <<ca_files, tasks, ops, now, config, jobs_db, renewal_jobs,
                   alerts_db, sent, health_report>>

\* A caller awaits process_single_renewal(job) for a job of device_id;
\* signing is what the key/signing backend does, fault the call that raises
\* after the issuance.  The result is the True or False it returns
ProcessSingleRenewal(device_id, signing, fault) ==
    /\ \E r \in process_single_renewal(DB, device_id, config.revoke_old,
                                       signing, fault, now) :
          /\ SetDB(r.db)
          /\ audit' = [audit EXCEPT !.issued = @ + Issued(r.db.certificates)]
          /\ result' = Outcome("renew", IF r.success THEN "True" ELSE "False")
    /\ UNCHANGED <<ca_files, tasks, ops, now, config, jobs_db, renewal_jobs,
                   alerts_db, sent, health_report>>

\* A caller invokes cert_db.store_certificate(cert_record) directly
StoreCertificate(cert_record) ==
    /\ certificates' = store_certificate(certificates, cert_record)
    /\ result' = Outcome("store", "ok")
    /\ UNCHANGED <<ca_files, tasks, ops, now, config, crl_entries, crl,
                   jobs_db, renewal_jobs, alerts_db, sent, health_report,
                   audit>>

\* The clock moves on to the next of the instants T
AdvanceClock(T) ==
    /\ \E t \in T :
          /\ t > now
          /\ \A u \in T : u > now => t <= u
          /\ now' = t
    /\ UNCHANGED <<ca_files, tasks, ops, config, certificates, crl_entries,
                   crl, jobs_db, renewal_jobs, alerts_db, sent, health_report,
                   result, audit>>

\* One cycle of certificate_monitoring_loop; schedule_renewal also
\* appends each job to the list in memory
monitoring_cycle ==
    /\ \E expiring_certs \in Listings(get_expiring_certificates(
                                 certificates, RenewalThresholdDays, now)) :
          LET jobs == schedule_expiring(jobs_db, expiring_certs, 1,
                                        config.enabled, now)
          IN /\ Len(jobs) <= MaxJobs
             /\ jobs_db' = jobs
             /\ renewal_jobs' = renewal_jobs
                    \o SubSeq(jobs, Len(jobs_db) + 1, Len(jobs))
    /\ result' = Outcome("monitor", "ok")
    /\ UNCHANGED <<ca_files, now, config, certificates, crl_entries, crl,
                   alerts_db, sent, health_report, audit>>

MonitoringPass == monitoring_cycle /\ UNCHANGED <<tasks, ops>>

\* CertificateRenewalManager.schedule_renewal called on its own
ScheduleRenewal(device_id, serial, expiry_date, priority) ==
    /\ Len(jobs_db) < MaxJobs
    /\ jobs_db' = schedule_renewal(jobs_db, device_id, serial, expiry_date,
                                   priority)
    /\ renewal_jobs' = Append(renewal_jobs, jobs_db'[Len(jobs_db')])
    /\ result' = Outcome("schedule", "ok")
    /\ UNCHANGED <<ca_files, tasks, ops, now, config, certificates,
                   crl_entries, crl, alerts_db, sent, health_report, audit>>

\* One cycle of renewal_processing_loop: process_renewal_jobs; signing[i]
\* is what the key/signing backend does if the i-th job attempts an
\* issuance, delivery what the notification channels do
renewal_cycle(signing, delivery) ==
    /\ \E sorted \in {sort_jobs(pending_jobs) :
                        pending_jobs \in Listings(load_pending_jobs(jobs_db))} :
       \E pass \in process_renewal_jobs(
                       [db |-> DB, jobs_db |-> jobs_db,
                        renewal_jobs |-> sorted,
                        sent |-> sent, audit |-> audit],
                       1, signing, delivery, config, now) :
          /\ SetDB(pass.db)
          /\ jobs_db' = pass.jobs_db
          /\ renewal_jobs' = pass.renewal_jobs
          /\ sent' = pass.sent
          /\ audit' = pass.audit
    /\ result' = Outcome("process", "processed")
    /\ UNCHANGED <<ca_files, now, config, alerts_db, health_report>>

ProcessRenewalJobs(signing, delivery) ==
    renewal_cycle(signing, delivery) /\ UNCHANGED <<tasks, ops>>

\* check_certificate_health on the rows that SELECT * FROM certificates
\* returns, in any order
health_scans(delivery) ==
    {check_certificate_health([i \in DOMAIN rows |-> certificates[rows[i]]],
                              config, delivery, now) :
        rows \in Listings(DOMAIN certificates)}

\* One cycle of health_check_loop: check_certificate_health; the loop logs
\* an exception of the scan and goes on
health_cycle(delivery) ==
    /\ \E scan \in health_scans(delivery) :
             /\ Len(sent) + Len(scan.sent) <= MaxAlerts
             /\ sent' = sent \o scan.sent
             /\ alerts_db' = store_alerts(alerts_db, scan.alerts, 1)
             /\ health_report' = IF scan.raised
                                 THEN health_report ELSE scan.report
             /\ result' = IF scan.raised
                          THEN Outcome("health", "Health check error")
                          ELSE Outcome("health", "report")
    /\ audit' = [audit EXCEPT !.classes =
                    [s \in DOMAIN certificates |->
                        health_class(certificates[s], now)]]
    /\ UNCHANGED <<ca_files, now, config, certificates, crl_entries, crl,
                   jobs_db, renewal_jobs>>

HealthScan(delivery) == health_cycle(delivery) /\ UNCHANGED <<tasks, ops>>

\* The process is killed while check_certificate_health awaits the
\* send_alert call for its k-th alert: the alerts before it were sent and
\* stored, this one was handed to send_alert and store_alert was not reached
HealthScanCrash(delivery) ==
    /\ \E scan \in health_scans(delivery) :
             \E k \in DOMAIN scan.sent :
                /\ scan.sent[k].attempts # <<>>
                /\ Len(sent) + k <= MaxAlerts
                /\ sent' = sent \o SubSeq(scan.sent, 1, k)
                /\ alerts_db' = store_alerts(alerts_db,
                                   SubSeq(scan.alerts, 1, k - 1), 1)
    /\ result' = Outcome("health", "killed")
    /\ UNCHANGED <<ca_files, tasks, ops, now, config, certificates,
                   crl_entries, crl, jobs_db, renewal_jobs, health_report,
                   audit>>

-----------------------------------------------------------------------------
(* The certificate authority and its store on their own *)

\* An entry of the devices list given to bulk issuance; device_id None
\* stands for an entry without the key 'device_id'
Entry(device_id, template) == [device_id |-> device_id, template |-> template]

\* The batches tried: one device, two devices, a device twice, an unknown
\* template first, a missing device id first, a failure in the middle
Batches ==
    {<<Entry("M-001", "smart_meter")>>,
     <<Entry("M-001", "smart_meter"), Entry("M-002", "smart_meter")>>,
     <<Entry("M-002", "smart_meter"), Entry("M-002", "smart_meter")>>,
     <<Entry("M-002", "no_such_template"), Entry("M-001", "smart_meter")>>,
     <<Entry(None, "smart_meter"), Entry("M-002", "smart_meter")>>,
     <<Entry("M-001", "smart_meter"), Entry("M-002", "no_such_template"),
       Entry("M-002", "smart_meter")>>}

NextPKI ==
    \/ \E d \in Devices, t \in {"smart_meter", "no_such_template"},
          ok \in BOOLEAN : IssueDevice(d, t, ok)
    \/ \E devices \in Batches : BulkIssue(devices)
    \/ \E s \in Serials, r \in ReasonInputs : Revoke(s, r)
    \/ \E d \in Devices, ok \in BOOLEAN : RenewDevice(d, ok)
    \/ AdvanceClock({0, 10})

\* Auto-renewal enabled and both notification channels configured
InitPKI == Init /\ config.enabled /\ config.webhook /\ config.email

SpecPKI == InitPKI /\ [][NextPKI]_vars

\* Records a caller can hand to store_certificate: a certificate built
\* elsewhere (key 0) under any serial
StoreInputs ==
    {CertificateRecord(s, "M-001", now, now + templates.smart_meter, 0,
                       "M-001", "smart_meter") : s \in Serials}

NextStore ==
    \/ \E d \in Devices : IssueDevice(d, "smart_meter", TRUE)
    \/ \E s \in Serials : Revoke(s, "key_compromise")
    \/ \E d \in Devices : RenewDevice(d, TRUE)
    \/ \E cert_record \in StoreInputs : StoreCertificate(cert_record)

SpecStore == InitPKI /\ [][NextStore]_vars

-----------------------------------------------------------------------------
(* The renewal scheduler: monitoring loop and renewal-processing loop *)

RenewalClock == {0, 10, 340, 370}

NextRenewal ==
    \/ \E d \in Devices : IssueDevice(d, "smart_meter", TRUE)
    \/ AdvanceClock(RenewalClock)
    \/ MonitoringPass
    \/ \E ok \in BOOLEAN :
           ProcessRenewalJobs([i \in 1..MaxJobs |-> ok], AllDelivered)

SpecRenewal == InitPKI /\ [][NextRenewal]_vars

-----------------------------------------------------------------------------
(* The job queue: renewals scheduled with any priority, and processed *)

\* The jobs scheduled: [medium, critical, high] of one expiry date, and a
\* second critical job of a later one
QueueInputs ==
    {[priority |-> "medium", expiry_date |-> 365],
     [priority |-> "critical", expiry_date |-> 365],
     [priority |-> "high", expiry_date |-> 365],
     [priority |-> "critical", expiry_date |-> 375]}

NextQueue ==
    \/ \E job \in QueueInputs :
           ScheduleRenewal("M-001", 2, job.expiry_date, job.priority)
    \/ \E ok \in BOOLEAN :
           ProcessRenewalJobs([i \in 1..MaxJobs |-> ok], AllDelivered)

SpecQueue == InitPKI /\ [][NextQueue]_vars

-----------------------------------------------------------------------------
(* The health monitor *)

HealthClock == {0, 350, 370}

NextHealth ==
    \/ \E d \in Devices : IssueDevice(d, "smart_meter", TRUE)
    \/ \E s \in Serials : Revoke(s, "key_compromise")
    \/ AdvanceClock(HealthClock)
    \/ HealthScan(AllDelivered)

SpecHealth == InitPKI /\ [][NextHealth]_vars

-----------------------------------------------------------------------------
(* The health monitor and the notification channels: both channels are    *)
(* configured, deliveries succeed or fail, the process is killed in a scan *)

InitNotify == InitPKI /\ config.revoke_old

NotifyClock == {0, 350}

NextNotify ==
    \/ IssueDevice("M-001", "smart_meter", TRUE)
    \/ AdvanceClock(NotifyClock)
    \/ \E delivery \in Deliveries : HealthScan(delivery)
    \/ HealthScanCrash(AllDelivered)

SpecNotify == InitNotify /\ [][NextNotify]_vars

-----------------------------------------------------------------------------
(* Issuance on its own, with every template *)

TemplateInputs == DOMAIN templates \cup {"no_such_template"}

NextIssue ==
    \/ \E d \in Devices, t \in TemplateInputs, ok \in BOOLEAN :
           IssueDevice(d, t, ok)
    \/ AdvanceClock({0, 10})

SpecIssue == InitNotify /\ [][NextIssue]_vars

-----------------------------------------------------------------------------
(* The monitoring loop at the days on which the priority changes *)

PriorityClock == {0, 343, 344, 350, 351, 357, 358, 366}

NextPriority ==
    \/ IssueDevice("M-001", "smart_meter", TRUE)
    \/ AdvanceClock(PriorityClock)
    \/ MonitoringPass

SpecPriority == InitNotify /\ [][NextPriority]_vars

-----------------------------------------------------------------------------
(* The monitoring loop with auto-renewal enabled or not, up to the days on
   which the root certificate is in the renewal window *)

InitSchedule == Init /\ config.revoke_old /\ config.webhook /\ config.email

ScheduleClock == {0, 340, 3640}

NextSchedule ==
    \/ IssueDevice("M-001", "smart_meter", TRUE)
    \/ \E s \in Serials : Revoke(s, "key_compromise")
    \/ AdvanceClock(ScheduleClock)
    \/ MonitoringPass

SpecSchedule == InitSchedule /\ [][NextSchedule]_vars

-----------------------------------------------------------------------------
(* The health scan over records that are past their not_after *)

ExpiryClock == {0, 370}

NextExpiry ==
    \/ IssueDevice("M-001", "smart_meter", TRUE)
    \/ Revoke(2, "key_compromise")
    \/ AdvanceClock(ExpiryClock)
    \/ HealthScan(NoneDelivered)

SpecExpiry == InitNotify /\ [][NextExpiry]_vars

-----------------------------------------------------------------------------
(* Renewal jobs for the certificates of one device, scheduled and processed *)

NextReplace ==
    \/ \E t \in {"smart_meter", "ieee2030_5_server"} :
           IssueDevice("M-001", t, TRUE)
    \/ \E s \in DOMAIN certificates :
           /\ certificates[s].device_id = "M-001"
           /\ ScheduleRenewal("M-001", s, certificates[s].not_after, "high")
    \/ AdvanceClock({0, 10})
    \/ ProcessRenewalJobs([i \in 1..MaxJobs |-> TRUE], AllDelivered)

SpecReplace == InitPKI /\ [][NextReplace]_vars

-----------------------------------------------------------------------------
(* Starts of the process on one base directory *)

NextRestart ==
    \/ Initialize
    \/ \E name \in {"ca_pem", "ca_key_pem"} : RemoveFile(name)
    \/ \E d \in Devices : IssueDevice(d, "smart_meter", TRUE)
    \/ \E s \in Serials : Revoke(s, "key_compromise")
    \/ AdvanceClock({0, 10})

SpecRestart == InitNotify /\ [][NextRestart]_vars

(***************************************************************************)
(* The three loops of start_management                                     *)
(***************************************************************************)

\* Mutant: an exception of a cycle ends the loop
after_cycle_fatal(ok) == IF ok THEN "sleep" ELSE "ended"

\* The try/except of a loop body: a cycle that returns goes to the sleep of
\* the interval, one that raises an Exception is logged and goes to the
\* sleep of the except branch; either way the while True goes round
after_cycle(ok) == IF ok THEN "sleep" ELSE "backoff"

\* await asyncio.sleep(...) returns: the task is at the top of its loop
Wake(l) ==
    /\ tasks[l].pc \in {"sleep", "backoff"}
    /\ tasks' = [tasks EXCEPT ![l].pc = "cycle"]
    /\ UNCHANGED <<ops, ca_files, now, config, certificates, crl_entries, crl,
                   jobs_db, renewal_jobs, alerts_db, sent, health_report,
                   result, audit>>

\* A cycle that raises (store unavailable) before it has written anything:
\* the except branch logs the error
cycle_error(l, message) ==
    /\ tasks' = [tasks EXCEPT ![l].pc = after_cycle(FALSE)]
    /\ result' = message
    /\ UNCHANGED <<ops, ca_files, now, config, certificates, crl_entries, crl,
                   jobs_db, renewal_jobs, alerts_db, sent, health_report,
                   audit>>

\* certificate_monitoring_loop, one turn of its while True
MonitoringCycle(ok) ==
    /\ tasks["monitoring"].pc = "cycle"
    /\ IF ok
       THEN /\ monitoring_cycle
            /\ tasks' = [tasks EXCEPT !["monitoring"].pc = after_cycle(TRUE)]
            /\ UNCHANGED ops
       ELSE cycle_error("monitoring", "Certificate monitoring error")

\* renewal_processing_loop, one turn of its while True
RenewalCycle(ok, signing, delivery) ==
    /\ tasks["renewal"].pc = "cycle"
    /\ IF ok
       THEN /\ renewal_cycle(signing, delivery)
            /\ tasks' = [tasks EXCEPT !["renewal"].pc = after_cycle(TRUE)]
            /\ UNCHANGED ops
       ELSE cycle_error("renewal", "Renewal processing error")

\* health_check_loop, one turn of its while True
HealthCycle(ok, delivery) ==
    /\ tasks["health"].pc = "cycle"
    /\ IF ok
       THEN /\ health_cycle(delivery)
            /\ tasks' = [tasks EXCEPT !["health"].pc = after_cycle(TRUE)]
            /\ UNCHANGED ops
       ELSE cycle_error("health", "Health check error")

MonitoringTurn == \E ok \in BOOLEAN : MonitoringCycle(ok)

RenewalTurn ==
    \E ok \in BOOLEAN :
        RenewalCycle(ok, [i \in 1..MaxJobs |-> TRUE], AllDelivered)

HealthTurn == \E ok \in BOOLEAN : HealthCycle(ok, AllDelivered)

NextLoops ==
    \/ IssueDevice("M-001", "smart_meter", TRUE)
    \/ \E l \in Loops : Wake(l)
    \/ MonitoringTurn
    \/ RenewalTurn
    \/ HealthTurn

\* The event loop runs every task that is ready: a sleep that has elapsed
\* returns and a task at the top of its loop runs its cycle
LoopsFairness ==
    /\ \A l \in Loops : WF_vars(Wake(l))
    /\ WF_vars(MonitoringTurn)
    /\ WF_vars(RenewalTurn)
    /\ WF_vars(HealthTurn)

SpecLoops == InitSchedule /\ [][NextLoops]_vars /\ LoopsFairness

(***************************************************************************)
(* process_renewal_jobs and revoke_certificate statement by statement:     *)
(* every store read and write is a step of its own, so that another caller *)
(* and the end of the process can fall between two of them                 *)
(***************************************************************************)

\* The job the for loop of process_renewal_jobs is at
job_at_hand == renewal_jobs[tasks["renewal"].i]

\* process_renewal_jobs up to its for loop: load_pending_jobs, then the sort
StartPass ==
    /\ tasks["renewal"].pc = "cycle"
    /\ \E pending_jobs \in Listings(load_pending_jobs(jobs_db)) :
          renewal_jobs' = sort_jobs(pending_jobs)
    /\ tasks' = [tasks EXCEPT !["renewal"] = [pc |-> "pass", i |-> 1]]
    /\ UNCHANGED <<ops, ca_files, now, config, certificates, crl_entries,
                   crl, jobs_db, alerts_db, sent, health_report, result,
                   audit>>

\* process_renewal_jobs: a failed attempt is counted, dated and saved, and
\* the for loop goes to the next job
count_failed_attempt ==
    LET job == [job_at_hand EXCEPT !.renewal_attempts = @ + 1,
                                   !.last_attempt = now]
    IN /\ renewal_jobs' = [renewal_jobs EXCEPT ![tasks["renewal"].i] = job]
       /\ jobs_db' = update_job(jobs_db, job)
       /\ tasks' = [tasks EXCEPT !["renewal"].i = @ + 1]
       /\ ops' = [ops EXCEPT !.renewal = NoOps.renewal]

\* process_single_renewal returns True: job.status = 'completed', the task
\* is at the send_alert call for the renewal_completed alert
renewal_succeeded ==
    /\ renewal_jobs' = [renewal_jobs EXCEPT
                           ![tasks["renewal"].i].status = "completed"]
    /\ ops' = [ops EXCEPT !.renewal.pc = "alert"]

\* The head of the for loop: the end of the pass, a job that is not
\* pending, a job out of attempts (failed, saved, renewal_failed alert), or
\* the first statement of process_single_renewal, which reads current_cert
NextJob(delivery) ==
    /\ tasks["renewal"].pc = "pass"
    /\ ops.renewal.pc = "idle"
    /\ IF tasks["renewal"].i > Len(renewal_jobs)
       THEN /\ tasks' = [tasks EXCEPT !["renewal"] =
                                          [pc |-> "sleep", i |-> 0]]
            /\ UNCHANGED <<ops, jobs_db, renewal_jobs, sent>>
       ELSE IF job_at_hand.status # "pending"
       THEN /\ tasks' = [tasks EXCEPT !["renewal"].i = @ + 1]
            /\ UNCHANGED <<ops, jobs_db, renewal_jobs, sent>>
       ELSE IF job_at_hand.renewal_attempts >= max_attempts
       THEN LET failed == [job_at_hand EXCEPT !.status = "failed"]
            IN /\ renewal_jobs' = [renewal_jobs EXCEPT
                                      ![tasks["renewal"].i] = failed]
               /\ jobs_db' = update_job(jobs_db, failed)
               /\ sent' = Append(sent, send_alert(
                              CertificateAlert("renewal_failed",
                                  failed.device_id, failed.serial_number,
                                  "critical", now),
                              config, delivery))
               /\ tasks' = [tasks EXCEPT !["renewal"].i = @ + 1]
               /\ UNCHANGED ops
       ELSE \E certs \in get_certificates_by_device(certificates,
                                                    job_at_hand.device_id) :
               IF certs = <<>>
               THEN count_failed_attempt /\ UNCHANGED sent
               ELSE /\ ops' = [ops EXCEPT !.renewal =
                                  [pc |-> "issue",
                                   current_cert |-> <<certs[1]>>,
                                   new_cert |-> <<>>]]
                    /\ UNCHANGED <<tasks, jobs_db, renewal_jobs, sent>>
    /\ UNCHANGED <<ca_files, now, config, certificates, crl_entries, crl,
                   alerts_db, health_report, result, audit>>

\* Mutant: the old certificate is revoked before the new one is issued
RenewIssueRevokeFirst(signing) ==
    /\ tasks["renewal"].pc = "pass"
    /\ ops.renewal.pc = "issue"
    /\ LET current_cert == ops.renewal.current_cert[1]
           revoked == revoke_certificate(DB, current_cert.serial_number,
                                         "superseded", now).db
           issued == issue_outcome(revoked.certificates,
                         job_at_hand.device_id,
                         IF current_cert.template_name = None
                         THEN "smart_meter" ELSE current_cert.template_name,
                         signing, now)
       IN /\ certificates' = issued.certificates
          /\ crl_entries' = revoked.crl_entries
          /\ crl' = revoked.crl
          /\ IF issued.outcome = "ok"
             THEN /\ audit' = [audit EXCEPT !.issued = @ + 1]
                  /\ ops' = [ops EXCEPT !.renewal.pc = "reread"]
                  /\ UNCHANGED <<tasks, jobs_db, renewal_jobs>>
             ELSE count_failed_attempt /\ UNCHANGED audit
    /\ UNCHANGED <<ca_files, now, config, alerts_db, sent, health_report,
                   result>>

\* process_single_renewal: the issue_device_certificate call; an exception
\* of it is caught and the attempt has failed
RenewIssue(signing) ==
    /\ tasks["renewal"].pc = "pass"
    /\ ops.renewal.pc = "issue"
    /\ LET current_cert == ops.renewal.current_cert[1]
           issued == issue_outcome(certificates, job_at_hand.device_id,
                         IF current_cert.template_name = None
                         THEN "smart_meter" ELSE current_cert.template_name,
                         signing, now)
       IN IF issued.outcome = "ok"
          THEN /\ certificates' = issued.certificates
               /\ audit' = [audit EXCEPT !.issued = @ + 1]
               /\ ops' = [ops EXCEPT !.renewal.pc = "reread"]
               /\ UNCHANGED <<tasks, jobs_db, renewal_jobs>>
          ELSE count_failed_attempt /\ UNCHANGED <<certificates, audit>>
    /\ UNCHANGED <<ca_files, now, config, crl_entries, crl, alerts_db, sent,
                   health_report, result>>

\* process_single_renewal: new_cert = get_certificates_by_device(...)[0],
\* new_cert.renewal_count = current_cert.renewal_count + 1, in memory
RenewReread ==
    /\ tasks["renewal"].pc = "pass"
    /\ ops.renewal.pc = "reread"
    /\ \E new_certs \in get_certificates_by_device(certificates,
                                                   job_at_hand.device_id) :
          ops' = [ops EXCEPT
                     !.renewal.pc = "store",
                     !.renewal.new_cert =
                         <<[new_certs[1] EXCEPT !.renewal_count =
                              ops.renewal.current_cert[1].renewal_count + 1]>>]
    /\ UNCHANGED <<tasks, ca_files, now, config, certificates, crl_entries,
                   crl, jobs_db, renewal_jobs, alerts_db, sent,
                   health_report, result, audit>>

\* process_single_renewal: store_certificate(new_cert) writes the whole row
\* as it was read
RenewStore ==
    /\ tasks["renewal"].pc = "pass"
    /\ ops.renewal.pc = "store"
    /\ certificates' = store_certificate(certificates, ops.renewal.new_cert[1])
    /\ IF config.revoke_old
       THEN /\ ops' = [ops EXCEPT !.renewal.pc = "revoke"]
            /\ UNCHANGED renewal_jobs
       ELSE renewal_succeeded
    /\ UNCHANGED <<tasks, ca_files, now, config, crl_entries, crl, jobs_db,
                   alerts_db, sent, health_report, result, audit>>

\* process_single_renewal: revoke_certificate(current_cert.serial_number,
\* 'superseded'), taken as one step
RenewRevoke ==
    /\ tasks["renewal"].pc = "pass"
    /\ ops.renewal.pc = "revoke"
    /\ SetDB(revoke_certificate(DB,
                 ops.renewal.current_cert[1].serial_number, "superseded",
                 now).db)
    /\ renewal_succeeded
    /\ UNCHANGED <<tasks, ca_files, now, config, jobs_db, alerts_db, sent,
                   health_report, result, audit>>

\* process_renewal_jobs after a renewal that succeeded: send_alert, then
\* update_job saves the completed status
RenewAlert(delivery) ==
    /\ tasks["renewal"].pc = "pass"
    /\ ops.renewal.pc = "alert"
    /\ sent' = Append(sent, send_alert(
                   CertificateAlert("renewal_completed",
                       job_at_hand.device_id, job_at_hand.serial_number,
                       "info", now),
                   config, delivery))
    /\ jobs_db' = update_job(jobs_db, job_at_hand)
    /\ tasks' = [tasks EXCEPT !["renewal"].i = @ + 1]
    /\ ops' = [ops EXCEPT !.renewal = NoOps.renewal]
    /\ UNCHANGED <<ca_files, now, config, certificates, crl_entries, crl,
                   renewal_jobs, alerts_db, health_report, result, audit>>

\* revoke_certificate of another caller, first statement: get_certificate,
\* the ValueError if there is no record, else the record changed in memory
RevokeRead(serial, reason) ==
    /\ ops.revocation.pc = "idle"
    /\ IF get_certificate(certificates, serial) = <<>>
       THEN /\ result' = "ValueError: Certificate not found"
            /\ UNCHANGED ops
       ELSE /\ ops' = [ops EXCEPT !.revocation =
                          [pc |-> "write", serial |-> serial,
                           reason |-> reason,
                           cert_record |->
                               <<[get_certificate(certificates, serial)[1]
                                     EXCEPT !.status = "revoked",
                                            !.revocation_date = now,
                                            !.revocation_reason = reason]>>]]
            /\ UNCHANGED result
    /\ UNCHANGED <<tasks, ca_files, now, config, certificates, crl_entries,
                   crl, jobs_db, renewal_jobs, alerts_db, sent,
                   health_report, audit>>

\* revoke_certificate: store_certificate(cert_record) writes the whole row
RevokeWrite ==
    /\ ops.revocation.pc = "write"
    /\ certificates' = store_certificate(certificates,
                                         ops.revocation.cert_record[1])
    /\ ops' = [ops EXCEPT !.revocation.pc = "crl"]
    /\ UNCHANGED <<tasks, ca_files, now, config, crl_entries, crl, jobs_db,
                   renewal_jobs, alerts_db, sent, health_report, result,
                   audit>>

\* revoke_certificate: add_to_crl, and the call returns
RevokeCrl ==
    /\ ops.revocation.pc = "crl"
    /\ SetDB(add_to_crl(DB, ops.revocation.serial, ops.revocation.reason,
                        now))
    /\ ops' = [ops EXCEPT !.revocation = NoOps.revocation]
    /\ result' = Outcome("revoke", "ok")
    /\ UNCHANGED <<tasks, ca_files, now, config, jobs_db, renewal_jobs,
                   alerts_db, sent, health_report, audit>>

RaceClock == {0, 10}

\* A revocation by another caller while the renewal loop works on the one
\* job of a device
NextRace ==
    \/ IssueDevice("M-001", "smart_meter", TRUE)
    \/ \E s \in Serials :
          /\ jobs_db = <<>>
          /\ s \in DOMAIN certificates
          /\ certificates[s].device_id = "M-001"
          /\ ScheduleRenewal("M-001", s, certificates[s].not_after, "high")
    \/ AdvanceClock(RaceClock)
    \/ Wake("renewal")
    \/ StartPass
    \/ NextJob(AllDelivered)
    \/ RenewIssue(TRUE)
    \/ RenewReread
    \/ RenewStore
    \/ RenewRevoke
    \/ RenewAlert(AllDelivered)
    \/ \E s \in Serials : RevokeRead(s, "key_compromise")
    \/ RevokeWrite
    \/ RevokeCrl

SpecRace == InitNotify /\ [][NextRace]_vars

\* Where a task can be cancelled: task.cancel() raises CancelledError at the
\* await the task is suspended in.  The awaits of process_renewal_jobs
\* (process_single_renewal, send_alert) run code that never yields to the
\* event loop (sqlite3, requests.post and smtplib are blocking calls), so
\* the renewal task is suspended only in the asyncio.sleep of its loop
suspended(pc) == pc \in {"sleep", "backoff"}

\* start_management, for task in tasks: task.cancel(), as the renewal task
\* takes it
Cancel ==
    /\ suspended(tasks["renewal"].pc)
    /\ tasks' = [tasks EXCEPT !["renewal"].pc = "cancelled"]
    /\ UNCHANGED <<ops, ca_files, now, config, certificates, crl_entries,
                   crl, jobs_db, renewal_jobs, alerts_db, sent,
                   health_report, result, audit>>

\* The KeyboardInterrupt that start_management takes as the shutdown signal
\* is raised by the interpreter in the code that is running: between two
\* statements of a pass of the renewal task.  It is no Exception, so the
\* except clauses of process_single_renewal and of the loop let it through
\* and the task ends where it stands
Interrupt ==
    /\ tasks["renewal"].pc = "pass"
    /\ tasks' = [tasks EXCEPT !["renewal"].pc = "cancelled"]
    /\ UNCHANGED <<ops, ca_files, now, config, certificates, crl_entries,
                   crl, jobs_db, renewal_jobs, alerts_db, sent,
                   health_report, result, audit>>

ShutdownClock == {0, 10}

\* The renewal loop with its one job, and the shutdown
NextShutdown ==
    \/ IssueDevice("M-001", "smart_meter", TRUE)
    \/ \E s \in Serials :
          /\ jobs_db = <<>>
          /\ s \in DOMAIN certificates
          /\ certificates[s].device_id = "M-001"
          /\ ScheduleRenewal("M-001", s, certificates[s].not_after, "high")
    \/ AdvanceClock(ShutdownClock)
    \/ Wake("renewal")
    \/ StartPass
    \/ \E delivery \in {AllDelivered, NoneDelivered} : NextJob(delivery)
    \/ \E signing \in BOOLEAN : RenewIssue(signing)
    \/ RenewReread
    \/ RenewStore
    \/ RenewRevoke
    \/ \E delivery \in {AllDelivered, NoneDelivered} : RenewAlert(delivery)
    \/ Cancel
    \/ Interrupt

SpecShutdown == InitPKI /\ [][NextShutdown]_vars

(***************************************************************************)
(* The health scan at the edges of the alert window and of its severities  *)
(***************************************************************************)

SeverityClock == {0, 335, 336, 350, 351, 357, 358, 365}

\* The certificates are issued on day 0 and expire on day 365
NextSeverity ==
    \/ now = 0 /\ IssueDevice("M-001", "smart_meter", TRUE)
    \/ Revoke(2, "key_compromise")
    \/ AdvanceClock(SeverityClock)
    \/ HealthScan(NoneDelivered)

SpecSeverity == InitNotify /\ [][NextSeverity]_vars

(***************************************************************************)
(* The queries of the certificate store                                    *)
(***************************************************************************)

QueryClock == {0, 10, 335}

\* The monitoring pass runs the expiring query, a renewal runs the fetch by
\* device
NextQuery ==
    \/ IssueDevice("M-001", "smart_meter", TRUE)
    \/ \E s \in Serials : Revoke(s, "key_compromise")
    \/ AdvanceClock(QueryClock)
    \/ MonitoringPass
    \/ RenewDevice("M-001", TRUE)

SpecQuery == InitSchedule /\ [][NextQuery]_vars

(***************************************************************************)
(* Revocation with reasons inside and outside the vocabulary               *)
(***************************************************************************)

\* revoke_certificate(serial_number, reason: str): any text can be passed
ReasonTexts == {"key_compromise", "lost_device"}

ReasonClock == {0, 10}

NextReason ==
    \/ IssueDevice("M-001", "smart_meter", TRUE)
    \/ \E s \in Serials, reason \in ReasonTexts : Revoke(s, reason)
    \/ AdvanceClock(ReasonClock)

SpecReason == InitNotify /\ [][NextReason]_vars

(***************************************************************************)
(* The monitoring loop and the records that enter the renewal window       *)
(***************************************************************************)

MonitorClock == {0, 335, 336}

\* The certificates are issued on day 0 and enter the renewal window
\* together on day 335
NextMonitor ==
    \/ now = 0 /\ IssueDevice("M-001", "smart_meter", TRUE)
    \/ AdvanceClock(MonitorClock)
    \/ Wake("monitoring")
    \/ MonitoringCycle(TRUE)
    \/ MonitoringCycle(FALSE)

\* The event loop runs the monitoring task when its sleep has elapsed, and
\* the store does not stay unavailable for ever: of the cycles that could
\* succeed, one does
MonitorFairness ==
    /\ WF_vars(Wake("monitoring"))
    /\ SF_vars(MonitoringCycle(TRUE))

SpecMonitor == InitSchedule /\ [][NextMonitor]_vars /\ MonitorFairness

-----------------------------------------------------------------------------
(* One renewal attempt, with a call that raises after the issuance *)

AttemptClock == {0, 10}

NextAttempt ==
    \/ \E d \in Devices : IssueDevice(d, "smart_meter", TRUE)
    \/ AdvanceClock(AttemptClock)
    \/ \E d \in Devices, signing \in BOOLEAN, fault \in Faults :
           ProcessSingleRenewal(d, signing, fault)

SpecAttempt == InitPKI /\ [][NextAttempt]_vars

-----------------------------------------------------------------------------
(* The jobs of one certificate, scheduled by the monitoring loop and      *)
(* processed call by call                                                  *)

TwiceClock == {0, 340}

NextTwice ==
    \/ /\ \A s \in DOMAIN certificates : certificates[s].device_id = None
       /\ IssueDevice("M-001", "smart_meter", TRUE)
    \/ AdvanceClock(TwiceClock)
    \/ MonitoringPass
    \/ Wake("renewal")
    \/ StartPass
    \/ NextJob(AllDelivered)
    \/ RenewIssue(TRUE)
    \/ RenewReread
    \/ RenewStore
    \/ RenewRevoke
    \/ RenewAlert(AllDelivered)

SpecTwice == InitPKI /\ [][NextTwice]_vars

-----------------------------------------------------------------------------
(* Revocations call by call: the record is stamped with one reading of the *)
(* clock, the ledger row with a later one                                  *)

LedgerClock == {0, 10}

NextLedger ==
    \/ IssueDevice("M-001", "smart_meter", TRUE)
    \/ AdvanceClock(LedgerClock)
    \/ \E s \in Serials, r \in ReasonInputs : RevokeRead(s, r)
    \/ RevokeWrite
    \/ RevokeCrl

SpecLedger == InitNotify /\ [][NextLedger]_vars

-----------------------------------------------------------------------------
(* Revocation on its own *)

NextRevoke ==
    \/ \E d \in Devices : IssueDevice(d, "smart_meter", TRUE)
    \/ \E s \in Serials, r \in ReasonInputs : Revoke(s, r)
    \/ AdvanceClock({0, 10})

SpecRevoke == InitNotify /\ [][NextRevoke]_vars

-----------------------------------------------------------------------------
(* Bulk issuance on its own *)

NextBulk ==
    \/ \E devices \in Batches : BulkIssue(devices)
    \/ \E s \in Serials : Revoke(s, "key_compromise")
    \/ AdvanceClock({0, 10, 20})

SpecBulk == InitNotify /\ [][NextBulk]_vars

-----------------------------------------------------------------------------
(* Properties of the certificate authority and its store *)

DeviceRecords(device_id) ==
    {s \in DOMAIN certificates : certificates[s].device_id = device_id}

Key(cert_record) == cert_record.certificate_pem[3]

\* C1: no two certificate records share a serial number, and there is one
\* record for the root and one for every successful issuance
C1_SerialsUnique ==
    /\ \A s \in DOMAIN certificates : certificates[s].serial_number = s
    /\ \A s1, s2 \in DOMAIN certificates :
           s1 # s2 => certificates[s1].serial_number
                        # certificates[s2].serial_number
    /\ Cardinality(DOMAIN certificates) = 1 + audit.issued

C1_Witness ==
    /\ audit.issued = MaxSerial - 1
    /\ \E s \in DOMAIN certificates : certificates[s].status = "revoked"
    /\ \E s \in DOMAIN certificates : certificates[s].renewal_count > 0

C3_LedgerAppendOnly ==
    [][\A s \in DOMAIN crl_entries :
           s \in DOMAIN crl_entries' /\ crl_entries'[s] = crl_entries[s]]_vars

Immutable(cert_record) ==
    [f \in {"serial_number", "fingerprint_sha256", "certificate_pem",
            "subject_dn", "issuer_dn", "not_before", "not_after", "device_id",
            "template_name"} |-> cert_record[f]]

\* C4: the serial number, fingerprint, encoded certificate, subject, issuer,
\* validity window, device id and template of a stored record never change
C4_ImmutableFields ==
    [][\A s \in DOMAIN certificates :
           /\ s \in DOMAIN certificates'
           /\ Immutable(certificates'[s]) = Immutable(certificates[s])]_vars

\* The effect the renewal of old_serial, the only record of device_id, is
\* to have: a new record with another serial, a fresh key, the device id
\* and the old count plus one; the old one superseded if so configured
RenewalRoundTrip(device_id, old_serial) ==
    \E new_serial \in DOMAIN certificates' \ DOMAIN certificates :
        LET old == certificates[old_serial]
            new == certificates'[new_serial]
        IN /\ DOMAIN certificates' = DOMAIN certificates \cup {new_serial}
           /\ new_serial # old_serial
           /\ \A s \in DOMAIN certificates : Key(certificates[s]) # Key(new)
           /\ new.device_id = device_id
           /\ new.renewal_count = old.renewal_count + 1
           /\ IF config.revoke_old
              THEN /\ certificates'[old_serial].status = "revoked"
                   /\ certificates'[old_serial].revocation_reason = "superseded"
              ELSE certificates'[old_serial].status = old.status

\* C5: renewing the one certificate issued for a device has the effect
\* RenewalRoundTrip
C5_RenewalRoundTrip ==
    [][\A d \in Devices, old_serial \in Serials :
           (/\ DeviceRecords(d) = {old_serial}
            /\ RenewDevice(d, TRUE)
            /\ DOMAIN certificates' # DOMAIN certificates)
               => RenewalRoundTrip(d, old_serial)]_vars

\* The same when the clock has moved on since the issuance
C5_RenewalRoundTripLater ==
    [][\A d \in Devices, old_serial \in Serials :
           (/\ DeviceRecords(d) = {old_serial}
            /\ certificates[old_serial].not_before < now
            /\ RenewDevice(d, TRUE)
            /\ DOMAIN certificates' # DOMAIN certificates)
               => RenewalRoundTrip(d, old_serial)]_vars

\* The root records of the store
Roots(certs) == {s \in DOMAIN certs : certs[s].template_name = "root_ca"}

\* C22: a start of the process on a deployment whose root has been
\* persisted loads it: it adds no root record and writes no root
\* certificate or key
C22_RootCreatedOnce ==
    [][Initialize => /\ result' = "loaded"
                     /\ Roots(certificates') = Roots(certificates)
                     /\ ca_files' = ca_files]_vars

\* A start that finds both files of the root loads it
C22_RootLoadedWhenComplete ==
    [][(Initialize /\ ca_files.ca_pem # <<>> /\ ca_files.ca_key_pem # <<>>)
          => /\ result' = "loaded"
             /\ UNCHANGED <<certificates, ca_files>>]_vars
\* C23: a failure inside one cycle of the monitoring loop, the
\* renewal-processing loop or the health-check loop never ends that loop:
\* whatever the other loops do, each loop is at the top of a new cycle
\* again and again
C23_LoopsSurvive == \A l \in Loops : []<>(tasks[l].pc = "cycle")

\* The health check has just failed and waits in its backoff while the
\* monitoring loop, whose own failure was logged before, is at the top of a
\* new cycle
C23_Witness ==
    /\ result = "Health check error"
    /\ tasks["health"].pc = "backoff"
    /\ tasks["monitoring"].pc = "cycle"
    /\ tasks["renewal"].pc = "sleep"
\* The record of serial s expires after every other record of its device
Newest(s) ==
    \A u \in DOMAIN certificates \ {s} :
        certificates[u].device_id = certificates[s].device_id
            => certificates[u].not_after < certificates[s].not_after

\* C24: when a revocation of a serial and a renewal that touches the same
\* serial run with their store reads and writes interleaved, no record
\* moves from revoked back to active
C24_NoResurrection ==
    [][\A s \in DOMAIN certificates :
           (Newest(s) /\ certificates[s].status = "revoked")
               => certificates'[s].status = "revoked"]_vars

\* C24, the end of the race: once both calls have returned, a record whose
\* revocation went to the ledger is revoked
C24_RevocationKept ==
    (ops = NoOps)
        => \A s \in DOMAIN crl_entries :
               Newest(s) => certificates[s].status = "revoked"
\* A certificate has been issued for the job at hand and something of the
\* renewal is not in the store yet: the renewal count of the new record
\* (reread, store), the revocation of the old record (revoke) or the
\* completed status of the job (alert)
Unrecorded == ops.renewal.pc \in {"reread", "store", "revoke", "alert"}

\* C26: on shutdown the renewal-processing loop is cancelled only between
\* jobs: it never ends with a certificate issued for a job while the new
\* record's renewal count, the old record's revocation or the job's
\* completed status is unrecorded
C26_CancelBetweenJobs == tasks["renewal"].pc = "cancelled" => ~Unrecorded

\* C26, the part the code keeps: task.cancel() reaches the renewal task
\* only in the sleep between two passes, with no renewal in flight
C26_CancelInSleep == [][Cancel => ~Unrecorded /\ ~Unrecorded']_vars

\* A job was renewed and saved as completed, and the loop was cancelled in
\* its sleep afterwards
C26_CancelWitness ==
    /\ tasks["renewal"].pc = "cancelled"
    /\ ~Unrecorded
    /\ \E k \in DOMAIN jobs_db : jobs_db[k].status = "completed"




\* C10: a revocation of a serial that is not in the store raises the
\* not-found ValueError and leaves records, ledger and CRL as they were
C10_RevokeUnknown ==
    [][\A s \in Serials, r \in ReasonInputs :
           (s \notin DOMAIN certificates /\ Revoke(s, r))
               => /\ result' = "ValueError: Certificate not found"
                  /\ UNCHANGED <<certificates, crl_entries, crl>>]_vars

C10_Witness ==
    /\ result = "ValueError: Certificate not found"
    /\ crl # {}
    /\ Cardinality(DOMAIN certificates) < MaxSerial

Valid(device) ==
    device.device_id # None /\ device.template \in DOMAIN templates

\* The device id under which an entry is reported
Reported(device) ==
    IF device.device_id = None THEN "unknown" ELSE device.device_id

Occurrences(seq, x) == Cardinality({i \in DOMAIN seq : seq[i] = x})

\* C16: bulk issuance reports every entry of the batch in exactly one of
\* the lists successful and failed, the lengths of the lists sum to the
\* total, a record is stored for every successful entry, and while serial
\* numbers are left the entries issue_device_certificate accepts are the
\* successful ones whatever failed before them
C16_BulkIndependent ==
    [][\A devices \in Batches :
           BulkIssue(devices) =>
               LET results == bulk_issue_certificates(
                                  [certificates |-> certificates,
                                   successful |-> <<>>, failed |-> <<>>],
                                  devices, 1, now)
                   ids == [i \in DOMAIN devices |-> Reported(devices[i])]
                   valid == {i \in DOMAIN devices : Valid(devices[i])}
               IN /\ Len(results.successful) + Len(results.failed)
                        = Len(devices)
                  /\ \A d \in Devices \cup {"unknown"} :
                         Occurrences(results.successful, d)
                             + Occurrences(results.failed, d)
                                 = Occurrences(ids, d)
                  /\ Cardinality(DOMAIN certificates')
                        = Cardinality(DOMAIN certificates)
                              + Len(results.successful)
                  /\ Cardinality(DOMAIN certificates) + Cardinality(valid)
                         <= MaxSerial
                       => /\ Len(results.successful) = Cardinality(valid)
                          /\ \A d \in Devices :
                                 Occurrences(results.successful, d)
                                     = Cardinality({i \in valid :
                                           devices[i].device_id = d})]_vars

\* A batch with a failing entry before an accepted one has been issued:
\* both devices have a certificate of day 10 and the store is full
C16_Witness ==
    /\ result = "ok"
    /\ Cardinality(DOMAIN certificates) = MaxSerial
    /\ \A d \in Devices :
           \E s \in DOMAIN certificates :
               certificates[s].device_id = d /\ certificates[s].not_before = 10

\* C17: an issuance with an undefined template name raises the unknown-
\* template ValueError, leaves the store as it was, and the next issuance
\* with a defined template succeeds
C17_UnknownTemplate ==
    [][\A d \in Devices, ok \in BOOLEAN :
           IssueDevice(d, "no_such_template", ok)
               => /\ result' = "ValueError: Unknown template"
                  /\ UNCHANGED <<certificates, crl_entries, crl>>
                  /\ Serials \ DOMAIN certificates' # {}
                       => issue_outcome(certificates', d, "smart_meter", TRUE,
                                        now').outcome = "ok"]_vars

C17_Witness ==
    /\ result = "ValueError: Unknown template"
    /\ Cardinality(DOMAIN certificates) = 2
    /\ now = 10

\* C18: a successful issuance at time T with a template of V days stores
\* one new record: active, renewal count 0, the device id, the template
\* name, valid from T to T + V
C18_IssuedRecord ==
    [][\A d \in Devices, t \in DOMAIN templates :
           (IssueDevice(d, t, TRUE) /\ result' = "ok")
               => \E s \in DOMAIN certificates' \ DOMAIN certificates :
                      /\ DOMAIN certificates'
                             = DOMAIN certificates \cup {s}
                      /\ \A u \in DOMAIN certificates :
                             certificates'[u] = certificates[u]
                      /\ certificates'[s].status = "active"
                      /\ certificates'[s].renewal_count = 0
                      /\ certificates'[s].device_id = d
                      /\ certificates'[s].template_name = t
                      /\ certificates'[s].not_before = now
                      /\ certificates'[s].not_after = now + templates[t]]_vars

\* Records of a 365-day and of a 730-day template issued at day 10
C18_Witness ==
    /\ result = "ok"
    /\ \E s \in DOMAIN certificates :
           /\ certificates[s].template_name = "smart_meter"
           /\ certificates[s].not_after = 375
    /\ \E s \in DOMAIN certificates :
           /\ certificates[s].template_name = "ieee2030_5_server"
           /\ certificates[s].not_after = 740

-----------------------------------------------------------------------------
(* Properties of the renewal scheduler *)

Severity == <<"critical", "high", "medium", "low">>

Rank(priority) == CHOOSE i \in DOMAIN Severity : Severity[i] = priority

\* Job a is due before job b: a more severe priority, or the same priority
\* and an earlier expiry date
DueBefore(a, b) ==
    \/ Rank(a.priority) < Rank(b.priority)
    \/ a.priority = b.priority /\ a.expiry_date < b.expiry_date

\* C6: a processing pass handles its jobs, renewal_jobs[1], [2], ... in
\* turn, so that no job comes before a job of the pass that has a more
\* severe priority, or the same priority and an earlier expiry date
C6_ProcessingOrder ==
    [][result' = "processed" =>
           \A i, j \in DOMAIN renewal_jobs' :
               i < j => ~DueBefore(renewal_jobs'[j], renewal_jobs'[i])]_vars

\* A pass has handled a critical job before a less severe one scheduled
\* earlier, and two jobs of one priority against the order of their rows
C6_Witness ==
    /\ result = "processed"
    /\ \E i, j \in DOMAIN renewal_jobs :
           /\ i < j
           /\ Rank(renewal_jobs[i].priority) < Rank(renewal_jobs[j].priority)
           /\ renewal_jobs[i].id > renewal_jobs[j].id
    /\ \E i, j \in DOMAIN renewal_jobs :
           /\ i < j
           /\ renewal_jobs[i].priority = renewal_jobs[j].priority
           /\ renewal_jobs[i].expiry_date < renewal_jobs[j].expiry_date
           /\ renewal_jobs[i].id > renewal_jobs[j].id

\* C7: a job that ran out of attempts has status failed, has produced one
\* renewal_failed alert and no second one, and no issuance has been
\* attempted for it since
C7_ExhaustedJobTerminal ==
    \A id \in audit.exhausted :
        /\ jobs_db[id].status = "failed"
        /\ id \notin audit.realerted
        /\ id \notin audit.retried

\* C25: a stored job whose status is completed or failed keeps that status
\* in every step
C25_TerminalAbsorbing ==
    [][\A k \in DOMAIN jobs_db :
           jobs_db[k].status \in {"completed", "failed"}
               => jobs_db'[k].status = jobs_db[k].status]_vars

\* C27: a processing pass in which every issuance fails leaves every job
\* that was pending with attempts to spare pending, with one attempt more
\* and the time of the pass as its last attempt, and raises alerts only
\* for the jobs that had no attempt left
C27_FailedAttemptCounted ==
    [][ProcessRenewalJobs([i \in 1..MaxJobs |-> FALSE], AllDelivered) =>
           /\ \A k \in DOMAIN jobs_db :
                  (/\ jobs_db[k].status = "pending"
                   /\ jobs_db[k].renewal_attempts < max_attempts)
                      => /\ jobs_db'[k].status = "pending"
                         /\ jobs_db'[k].renewal_attempts
                                = jobs_db[k].renewal_attempts + 1
                         /\ jobs_db'[k].last_attempt = now
           /\ Len(sent') - Len(sent)
                  = Cardinality({k \in DOMAIN jobs_db :
                        /\ jobs_db[k].status = "pending"
                        /\ jobs_db[k].renewal_attempts >= max_attempts})]_vars

\* A job alone in the table has failed one attempt
C27_SingleJobWitness ==
    /\ result = "processed"
    /\ Len(jobs_db) = 1
    /\ jobs_db[1].status = "pending"
    /\ jobs_db[1].renewal_attempts = 1
    /\ jobs_db[1].last_attempt = now
    /\ sent = <<>>

\* The same for a table in which no two jobs name the same device and
\* serial number: there the count is right
C27_FailedAttemptCountedAlone ==
    [][(/\ \A j, k \in DOMAIN jobs_db :
              (/\ jobs_db[j].device_id = jobs_db[k].device_id
               /\ jobs_db[j].serial_number = jobs_db[k].serial_number)
                  => j = k
        /\ ProcessRenewalJobs([i \in 1..MaxJobs |-> FALSE], AllDelivered))
          => \A k \in DOMAIN jobs_db :
                 (/\ jobs_db[k].status = "pending"
                  /\ jobs_db[k].renewal_attempts < max_attempts)
                     => /\ jobs_db'[k].status = "pending"
                        /\ jobs_db'[k].renewal_attempts
                               = jobs_db[k].renewal_attempts + 1
                        /\ jobs_db'[k].last_attempt = now]_vars

\* C28: a pass that renews for the one pending job of the table issues one
\* certificate with the template of the record the job names and that
\* record's renewal count plus one, makes that record revoked with reason
\* superseded if revoke_old is configured, and changes no other record
C28_ReplacesJobRecord ==
    [][\A k \in DOMAIN jobs_db :
           (/\ ProcessRenewalJobs([i \in 1..MaxJobs |-> TRUE], AllDelivered)
            /\ \A j \in DOMAIN jobs_db : jobs_db[j].status = "pending" <=> j = k
            /\ jobs_db[k].serial_number \in DOMAIN certificates
            /\ DOMAIN certificates' # DOMAIN certificates)
              => LET s == jobs_db[k].serial_number
                 IN /\ \E n \in Serials :
                           /\ DOMAIN certificates'
                                  = DOMAIN certificates \cup {n}
                           /\ n \notin DOMAIN certificates
                           /\ certificates'[n].device_id = jobs_db[k].device_id
                           /\ certificates'[n].template_name
                                  = certificates[s].template_name
                           /\ certificates'[n].renewal_count
                                  = certificates[s].renewal_count + 1
                    /\ certificates'[s].renewal_count
                           = certificates[s].renewal_count
                    /\ config.revoke_old
                         => /\ certificates'[s].status = "revoked"
                            /\ certificates'[s].revocation_reason
                                   = "superseded"
                    /\ \A u \in DOMAIN certificates \ {s} :
                           certificates'[u] = certificates[u]]_vars

\* C29: no job has had more than max_attempts issuance calls made for it
C29_IssuanceCallsBounded ==
    \A id \in DOMAIN audit.calls : audit.calls[id] <= max_attempts

\* The attempt count of every stored job is between 0 and max_attempts
C29_AttemptCountInRange ==
    \A k \in DOMAIN jobs_db :
        jobs_db[k].renewal_attempts \in 0..max_attempts

\* C8: no device has two renewal jobs with status pending
C8_OnePendingJobPerDevice ==
    \A d \in Devices :
        Cardinality({i \in DOMAIN jobs_db :
            jobs_db[i].device_id = d /\ jobs_db[i].status = "pending"}) <= 1

\* C19: the monitoring pass 340 days after the issuance of an active
\* 365-day record, with auto-renewal enabled, gives the record a renewal
\* job of priority medium
C19_MediumAt340 ==
    [][MonitoringPass =>
           \A s \in DOMAIN certificates :
               (/\ certificates[s].device_id # None
                /\ certificates[s].status = "active"
                /\ certificates[s].not_after = certificates[s].not_before + 365
                /\ now = certificates[s].not_before + 340
                /\ config.enabled)
                   => \E k \in (Len(jobs_db) + 1)..Len(jobs_db') :
                          /\ jobs_db'[k].serial_number = s
                          /\ jobs_db'[k].priority = "medium"]_vars

\* C21: a monitoring pass leaves the jobs it found as they were and adds
\* jobs only with auto-renewal enabled, each for a record of the store
\* that is active, has a device id and expires within the renewal
\* threshold; with auto-renewal disabled it adds none
C21_JobsOnlyWhenEnabled ==
    [][MonitoringPass =>
           /\ Len(jobs_db') >= Len(jobs_db)
           /\ SubSeq(jobs_db', 1, Len(jobs_db)) = jobs_db
           /\ ~config.enabled => jobs_db' = jobs_db
           /\ \A k \in (Len(jobs_db) + 1)..Len(jobs_db') :
                  /\ config.enabled
                  /\ jobs_db'[k].serial_number \in DOMAIN certificates
                  /\ LET cert == certificates[jobs_db'[k].serial_number]
                     IN /\ cert.status = "active"
                        /\ cert.device_id # None
                        /\ cert.device_id = jobs_db'[k].device_id
                        /\ cert.not_after <= now + RenewalThresholdDays]_vars

\* With the root and a revoked device record in the renewal window, the
\* passes have scheduled jobs for the active device record only
C21_Witness ==
    /\ now = 3640
    /\ config.enabled
    /\ jobs_db # <<>>
    /\ \E s \in DOMAIN certificates :
           /\ certificates[s].device_id # None
           /\ certificates[s].status = "revoked"
           /\ \A k \in DOMAIN jobs_db : jobs_db[k].serial_number # s
    /\ certificates[1].status = "active"
    /\ \A k \in DOMAIN jobs_db : jobs_db[k].serial_number # 1

\* The priority for the whole days that remain
Bracket(days) ==
    CASE days <= 7 -> "critical"
      [] days \in 8..14 -> "high"
      [] days \in 15..21 -> "medium"
      [] days > 21 -> "low"

\* C20: every job a monitoring pass schedules has the priority of the days
\* that remain until its expiry date: critical up to 7 and past the date,
\* high from 8 to 14, medium from 15 to 21, low above
C20_PriorityBrackets ==
    [][MonitoringPass =>
           \A k \in (Len(jobs_db) + 1)..Len(jobs_db') :
               jobs_db'[k].priority = Bracket(jobs_db'[k].expiry_date - now)]_vars

\* Jobs have been scheduled 15 days before, 7 days before and the day
\* after the expiry of a certificate
C20_Witness ==
    /\ now = 366
    /\ Len(jobs_db) = 3
    /\ jobs_db[1].priority = "medium"
    /\ jobs_db[2].priority = "critical"
    /\ jobs_db[3].priority = "critical"
    /\ jobs_db[3].expiry_date = 365
    /\ jobs_db[2].expiry_date = 365

-----------------------------------------------------------------------------
(* Properties of the health monitor *)

Classes == [s \in DOMAIN certificates |-> health_class(certificates[s], now)]

Alerted == {s \in DOMAIN audit.classes :
               audit.classes[s] \in {"expired_active", "expiring"}}

\* C9: a health scan that follows a health scan, with no operation on the
\* store and no change of a record's classification in between, reports
\* the same active, expiring-soon and expired counts and stores no alert
\* for a record the first scan alerted on
C9_HealthScanIdempotent ==
    [][(/\ result = "report"
        /\ audit.classes = Classes
        /\ HealthScan(AllDelivered))
          => /\ health_report'.active_certificates
                   = health_report.active_certificates
             /\ health_report'.expiring_soon = health_report.expiring_soon
             /\ health_report'.expired_certificates
                   = health_report.expired_certificates
             /\ \A k \in (Len(alerts_db) + 1)..Len(alerts_db') :
                    alerts_db'[k].serial_number \notin Alerted]_vars

\* The counts alone
C9_SameCounts ==
    [][(/\ result = "report"
        /\ audit.classes = Classes
        /\ HealthScan(AllDelivered))
          => /\ health_report'.active_certificates
                   = health_report.active_certificates
             /\ health_report'.expiring_soon = health_report.expiring_soon
             /\ health_report'.expired_certificates
                   = health_report.expired_certificates]_vars

-----------------------------------------------------------------------------
(* Properties of the alerts *)

Stored(alert) == \E j \in DOMAIN alerts_db : alerts_db[j] = alert

\* C12: every renewal_failed and renewal_completed alert the renewal
\* scheduler has raised is a row of the alert store
C12_SchedulerAlertsStored ==
    \A i \in DOMAIN sent :
        sent[i].alert.alert_type \in {"renewal_failed", "renewal_completed"}
            => Stored(sent[i].alert)

\* C13: an alert of the health scan for which a delivery has been started
\* is a row of the alert store, whatever happens to the process
C13_StoredBeforeDispatch ==
    \A i \in DOMAIN sent :
        (/\ sent[i].alert.alert_type
                \in {"certificate_expired", "certificate_expiring"}
         /\ sent[i].attempts # <<>>)
            => Stored(sent[i].alert)

Channels(call) == {call.attempts[k].channel : k \in DOMAIN call.attempts}

\* C14: with both channels configured, a delivery is attempted on the
\* webhook and on the email channel for every alert, whether or not the
\* other delivery failed
C14_ChannelsIndependent ==
    (config.webhook /\ config.email)
        => \A i \in DOMAIN sent : Channels(sent[i]) = {"webhook", "email"}

SeverityOf(days) ==
    IF days <= 7 THEN "critical"
    ELSE IF days >= 8 /\ days <= 14 THEN "warning"
    ELSE "info"

\* The record of serial s is active, not past its not_after and expires
\* inside the alert window
ExpiringSoon(s) ==
    /\ certificates[s].status = "active"
    /\ certificates[s].not_after >= now
    /\ certificates[s].not_after < now + AlertWindowDays

RecordsOf(device_id) ==
    {certificates[s] : s \in {u \in DOMAIN certificates :
                                 certificates[u].device_id = device_id}}

\* C32: the expiring query with parameter N returns exactly the records
\* that are active and whose not_after is no later than now plus N days;
\* the fetch by device returns all and only the device's records, each
\* once, by not_after descending, so that the first has the latest not_after
C32_QueriesExact ==
    /\ \A N \in {0, RenewalThresholdDays} :
           LET expiring == get_expiring_certificates(certificates, N, now)
           IN /\ \A c \in expiring :
                     /\ c.serial_number \in DOMAIN certificates
                     /\ certificates[c.serial_number] = c
                     /\ c.status = "active"
                     /\ c.not_after - now <= N
              /\ \A s \in DOMAIN certificates :
                     (certificates[s].status = "active"
                          /\ certificates[s].not_after - now <= N)
                       => certificates[s] \in expiring
    /\ \A d \in Devices :
           \A certs \in get_certificates_by_device(certificates, d) :
               /\ {certs[i] : i \in DOMAIN certs} = RecordsOf(d)
               /\ Len(certs) = Cardinality(RecordsOf(d))
               /\ \A i, j \in DOMAIN certs :
                      i < j => certs[i].not_after >= certs[j].not_after
               /\ \A c \in RecordsOf(d) : certs[1].not_after >= c.not_after

\* On day 335 a device has two records, the older one expiring in exactly
\* thirty days and returned by the expiring query, the other revoked and
\* not returned; the fetch by device lists the later record first
C32_Witness ==
    /\ now = 335
    /\ \E c \in get_expiring_certificates(certificates,
                                          RenewalThresholdDays, now) :
           c.device_id = "M-001" /\ c.not_after = 365
    /\ \E c \in RecordsOf("M-001") :
           /\ c.status = "revoked"
           /\ c.not_after = 375
           /\ \A certs \in get_certificates_by_device(certificates, "M-001") :
                  certs[1] = c /\ Len(certs) = 2

\* C33: every revocation reason stored in a record belongs to the
\* vocabulary of nine reasons, and the code in the ledger and in the CRL is
\* the code of the reason that was passed to revoke_certificate
C33_ReasonsStandard ==
    \A s \in DOMAIN certificates :
        certificates[s].status = "revoked"
            => /\ certificates[s].revocation_reason \in DOMAIN reason_codes
               /\ s \in DOMAIN crl_entries
               /\ crl_entries[s].reason_code
                      = reason_codes[certificates[s].revocation_reason]

\* C33, the part the code keeps: a revocation with key_compromise leaves
\* code 1 in the ledger and in the CRL
C33_KeyCompromiseCode ==
    [][\A s \in Serials :
           (s \in DOMAIN certificates /\ Revoke(s, "key_compromise"))
               => /\ crl_entries'[s].reason_code = 1
                  /\ \E e \in crl' :
                         e.serial_number = s /\ e.reason_code = 1]_vars

\* The record of serial s is active, has a device identifier and is inside
\* the renewal window
InRenewalWindow(s) ==
    /\ s \in DOMAIN certificates
    /\ certificates[s].status = "active"
    /\ certificates[s].device_id # None
    /\ certificates[s].not_after <= now + RenewalThresholdDays

ToAlert == {s \in DOMAIN certificates :
               health_class(certificates[s], now)
                   \in {"expired_active", "expiring"}}

C35_RevocationAbsorbing ==
    [][\A s \in DOMAIN certificates :
           certificates[s].status = "revoked"
               => /\ s \in DOMAIN certificates'
                  /\ certificates'[s].status = "revoked"
                  /\ certificates'[s].revocation_date =
                         certificates[s].revocation_date
                  /\ certificates'[s].revocation_reason =
                         certificates[s].revocation_reason]_vars

\* C35, the part the operations of the PKI keep: no issuance, renewal or
\* revocation makes a revoked record active again
C35_StatusStaysRevoked ==
    [][\A s \in DOMAIN certificates :
           certificates[s].status = "revoked"
               => /\ s \in DOMAIN certificates'
                  /\ certificates'[s].status = "revoked"]_vars

\* C36: a renewal attempt that reports failure leaves the certificate store
\* as it was: no record added, the status, revocation date and revocation
\* reason of every record unchanged, the ledger and the CRL unchanged
C36_FailureLeavesStore ==
    [][\A d \in Devices, signing \in BOOLEAN, fault \in Faults :
           (ProcessSingleRenewal(d, signing, fault) /\ result' = "False")
               => /\ DOMAIN certificates' = DOMAIN certificates
                  /\ \A s \in DOMAIN certificates :
                        /\ certificates'[s].status = certificates[s].status
                        /\ certificates'[s].revocation_date =
                               certificates[s].revocation_date
                        /\ certificates'[s].revocation_reason =
                               certificates[s].revocation_reason
                  /\ crl_entries' = crl_entries
                  /\ crl' = crl]_vars

\* C36, the part the code keeps: an attempt that fails before or in the
\* issuance (no certificate of the device, signing fails, no serial left)
\* leaves the store, the ledger and the CRL as they were
C36_IssuanceFailureLeavesStore ==
    [][\A d \in Devices, fault \in Faults :
           (ProcessSingleRenewal(d, FALSE, fault) /\ result' = "False")
               => /\ certificates' = certificates
                  /\ crl_entries' = crl_entries
                  /\ crl' = crl]_vars

\* C37: the renewal loop does not get to the issuance of a replacement for
\* a certificate whose replacement another job has already completed: at
\* most one replacement is issued for an old serial number
C37_ReplacedOnce ==
    (tasks["renewal"].pc = "pass" /\ ops.renewal.pc = "issue")
        => ~\E k \in DOMAIN jobs_db :
               /\ jobs_db[k].id # job_at_hand.id
               /\ jobs_db[k].device_id = job_at_hand.device_id
               /\ jobs_db[k].serial_number = job_at_hand.serial_number
               /\ jobs_db[k].status = "completed"

\* C38: between operations a record is revoked exactly if the revocation
\* ledger has a row for its serial, and then the revocation date of the
\* record is the date of the row and its reason has the code of the row
C38_LedgerAgrees ==
    (ops.revocation.pc = "idle" /\ ops.renewal.pc = "idle")
        => \A s \in DOMAIN certificates :
              /\ certificates[s].status = "revoked" <=> s \in DOMAIN crl_entries
              /\ s \in DOMAIN crl_entries
                    => /\ certificates[s].revocation_date =
                              crl_entries[s].revocation_date
                       /\ reason_code(certificates[s].revocation_reason) =
                              crl_entries[s].reason_code

\* C38, the part the revocations keep when nothing else writes to the
\* store: a record is revoked exactly if the ledger has a row for it, and
\* its reason has the code of the row
C38_RevokedIffListed ==
    (ops.revocation.pc = "idle" /\ ops.renewal.pc = "idle")
        => \A s \in DOMAIN certificates :
              /\ certificates[s].status = "revoked" <=> s \in DOMAIN crl_entries
              /\ s \in DOMAIN crl_entries
                    => reason_code(certificates[s].revocation_reason) =
                           crl_entries[s].reason_code

\* The device has a record with status active
HasActive(certs, device_id) ==
    \E s \in DOMAIN certs :
        certs[s].device_id = device_id /\ certs[s].status = "active"

\* C39: no step of a renewal pass takes the last active record from a
\* device: a device with an active record has one after every store call
\* of the pass, whether the pass succeeds, fails or is cut short
C39_AlwaysActive ==
    [][\A d \in Devices :
           HasActive(certificates, d) => HasActive(certificates', d)]_vars

\* The renewal of the one certificate of M-001 has revoked it as superseded
\* after the replacement was stored, and is about to report its completion
C39_Witness ==
    /\ tasks["renewal"].pc = "pass"
    /\ ops.renewal.pc = "alert"
    /\ \E old, new \in DOMAIN certificates :
          /\ certificates[old].device_id = "M-001"
          /\ certificates[old].status = "revoked"
          /\ certificates[old].revocation_reason = "superseded"
          /\ certificates[new].device_id = "M-001"
          /\ certificates[new].status = "active"
          /\ certificates[new].renewal_count = 1

\* C39 for renew_device_certificate: a call of it takes the last active
\* record from no device
C39_RenewDeviceKeepsActive ==
    [][\A d \in Devices, signing \in BOOLEAN :
           RenewDevice(d, signing)
               => \A e \in Devices :
                      HasActive(certificates, e)
                          => HasActive(certificates', e)]_vars

\* C40: a step of the renewal pass that saves the job at hand with
\* update_job leaves every other row of the job table as it was
C40_UpdateJobFrame ==
    [][(/\ tasks["renewal"].pc = "pass"
        /\ Len(jobs_db') = Len(jobs_db)
        /\ jobs_db' # jobs_db)
           => \A k \in DOMAIN jobs_db :
                  jobs_db[k].id # job_at_hand.id
                      => jobs_db'[k] = jobs_db[k]]_vars

====
